---------------------------- MODULE Spec2Model ----------------------------
(***************************************************************************)
(* Conversation flow engine of agent-bg: the keyword intent classifier,    *)
(* the field extractor, the flow transition table, the prompt/response     *)
(* builder and the three-stage pipeline (analyze, generate, save) that the *)
(* BuilderBot webhook runs for every inbound message.                      *)
(*                                                                         *)
(* Text is modelled at two levels.  Inbound utterances are sequences of    *)
(* characters, so that lexicon matching is real substring containment and  *)
(* number extraction is a real scan.  Outbound texts are records that name *)
(* which text was produced (LLM text, rendered or raw step template, a     *)
(* canned message) and whether _clean_response appended a period.          *)
(*                                                                         *)
(* Python floats are integers in units of 1/200, so that two-decimal       *)
(* numbers and the average of two of them are exact.                       *)
(***************************************************************************)
EXTENDS Integers, Sequences, FiniteSets, TLC

-----------------------------------------------------------------------------
(* ConversationStep and IntentType (app/core/prompts.py)                   *)

ConversationStep ==
    { "greeting", "collect_budget", "collect_income", "collect_employment",
      "collect_amount", "present_offer", "awaiting_decision",
      "handle_objection", "request_clarification", "close_positive",
      "close_negative", "completed", "error" }

IntentType ==
    { "positive", "negative", "neutral", "request_info", "objection", "unclear" }

-----------------------------------------------------------------------------
(* Python values held in collected_data: None, a float, a str.             *)

NoneV == [t |-> "none", n |-> 0, s |-> ""]

Num(x) == [t |-> "num", n |-> x, s |-> ""]

Str(x) == [t |-> "str", n |-> 0, s |-> x]

\* float literal units.hundredths, in units of 1/200
Float(units, hundredths) == units * 200 + hundredths * 2

\* Python truthiness of a value: None, 0.0 and "" are falsy
Truthy(v) == (v.t = "num" /\ v.n # 0) \/ (v.t = "str" /\ v.s # "")

-----------------------------------------------------------------------------
(* Inbound utterances and their characters.                                *)

Utterances ==
    {"", "si", "no", "gano 300 al mes", "gano 2500 al mes", "2500", "300", "60000", "empleado", "detalles", "caro", "hola", "entre 2000 y 3000", "no quiero", "Ok", "1,500.50", "200000"}

Chars(u) ==
    CASE u = "" -> <<>>
      [] u = "si" -> <<"s", "i">>
      [] u = "no" -> <<"n", "o">>
      [] u = "gano 300 al mes" -> <<"g", "a", "n", "o", " ", "3", "0", "0", " ", "a", "l", " ", "m", "e", "s">>
      [] u = "gano 2500 al mes" -> <<"g", "a", "n", "o", " ", "2", "5", "0", "0", " ", "a", "l", " ", "m", "e", "s">>
      [] u = "2500" -> <<"2", "5", "0", "0">>
      [] u = "300" -> <<"3", "0", "0">>
      [] u = "60000" -> <<"6", "0", "0", "0", "0">>
      [] u = "200000" -> <<"2", "0", "0", "0", "0", "0">>
      [] u = "empleado" -> <<"e", "m", "p", "l", "e", "a", "d", "o">>
      [] u = "detalles" -> <<"d", "e", "t", "a", "l", "l", "e", "s">>
      [] u = "caro" -> <<"c", "a", "r", "o">>
      [] u = "hola" -> <<"h", "o", "l", "a">>
      [] u = "entre 2000 y 3000" -> <<"e", "n", "t", "r", "e", " ", "2", "0", "0", "0", " ", "y", " ", "3", "0", "0", "0">>
      [] u = "no quiero" -> <<"n", "o", " ", "q", "u", "i", "e", "r", "o">>
      [] u = "Ok" -> <<"O", "k">>
      [] u = "1,500.50" -> <<"1", ",", "5", "0", "0", ".", "5", "0">>
      [] u = "detalles, pero caro" -> <<"d", "e", "t", "a", "l", "l", "e", "s", ",", " ", "p", "e", "r", "o", " ", "c", "a", "r", "o">>
      [] u = "empleado 5" -> <<"e", "m", "p", "l", "e", "a", "d", "o", " ", "5">>
      [] u = "entre 3000 y 2000" -> <<"e", "n", "t", "r", "e", " ", "3", "0", "0", "0", " ", "y", " ", "2", "0", "0", "0">>
      [] u = "entre 1000" -> <<"e", "n", "t", "r", "e", " ", "1", "0", "0", "0">>
      [] u = "2000 3000" -> <<"2", "0", "0", "0", " ", "3", "0", "0", "0">>
      [] u = "ENTRE 2000 Y 3000" -> <<"E", "N", "T", "R", "E", " ", "2", "0", "0", "0", " ", "Y", " ", "3", "0", "0", "0">>
      [] u = "entre 2000.5 y 3000" -> <<"e", "n", "t", "r", "e", " ", "2", "0", "0", "0", ".", "5", " ", "y", " ", "3", "0", "0", "0">>

Digits == {"0", "1", "2", "3", "4", "5", "6", "7", "8", "9"}

DigitVal(c) ==
    CASE c = "0" -> 0 [] c = "1" -> 1 [] c = "2" -> 2 [] c = "3" -> 3
      [] c = "4" -> 4 [] c = "5" -> 5 [] c = "6" -> 6 [] c = "7" -> 7
      [] c = "8" -> 8 [] c = "9" -> 9

UpperCase ==
    << "A", "B", "C", "D", "E", "F", "G", "H", "I", "J", "K", "L", "M",
       "N", "O", "P", "Q", "R", "S", "T", "U", "V", "W", "X", "Y", "Z" >>

LowerCase ==
    << "a", "b", "c", "d", "e", "f", "g", "h", "i", "j", "k", "l", "m",
       "n", "o", "p", "q", "r", "s", "t", "u", "v", "w", "x", "y", "z" >>

\* str.lower() on one character
LowerChar(c) ==
    IF \E i \in 1..Len(UpperCase) : UpperCase[i] = c
    THEN LowerCase[CHOOSE i \in 1..Len(UpperCase) : UpperCase[i] = c]
    ELSE c

\* str.lower()
Lower(s) == [i \in 1..Len(s) |-> LowerChar(s[i])]

\* str.strip(): leading and trailing blanks removed
Strip(s) ==
    LET nonblank == {i \in 1..Len(s) : s[i] # " "}
    IN  IF nonblank = {} THEN <<>>
        ELSE SubSeq(s, CHOOSE i \in nonblank : \A j \in nonblank : i <= j,
                       CHOOSE i \in nonblank : \A j \in nonblank : i >= j)

\* w in s  (substring containment)
Contains(s, w) ==
    \E i \in 1..(Len(s) - Len(w) + 1) : SubSeq(s, i, i + Len(w) - 1) = w

\* any(word in s for word in keywords)
AnyIn(keywords, s) == \E k \in 1..Len(keywords) : Contains(s, keywords[k])

\* str.replace(',', '')
RemoveCommas(s) == SelectSeq(s, LAMBDA c : c # ",")

-----------------------------------------------------------------------------
(* IntentAnalyzer (app/core/prompts.py)                                    *)

POSITIVE_KEYWORDS ==
    << <<"s", "í">>, <<"s", "i">>,
       <<"o", "k">>, <<"a", "c", "e", "p", "t", "o">>,
       <<"m", "e", " ", "i", "n", "t", "e", "r", "e", "s", "a">>, <<"p", "e", "r", "f", "e", "c", "t", "o">>,
       <<"e", "x", "c", "e", "l", "e", "n", "t", "e">>, <<"g", "e", "n", "i", "a", "l">>,
       <<"c", "l", "a", "r", "o">>, <<"p", "o", "r", " ", "s", "u", "p", "u", "e", "s", "t", "o">>,
       <<"d", "a", "l", "e">>, <<"v", "a", "m", "o", "s">>,
       <<"q", "u", "i", "e", "r", "o">> >>

NEGATIVE_KEYWORDS ==
    << <<"n", "o">>, <<"n", "a", "h">>,
       <<"n", "o", " ", "g", "r", "a", "c", "i", "a", "s">>, <<"n", "o", " ", "m", "e", " ", "i", "n", "t", "e", "r", "e", "s", "a">>,
       <<"p", "a", "s", "o">>, <<"m", "e", "j", "o", "r", " ", "n", "o">>,
       <<"a", "h", "o", "r", "a", " ", "n", "o">>, <<"t", "a", "l", " ", "v", "e", "z", " ", "d", "e", "s", "p", "u", "é", "s">>,
       <<"n", "o", " ", "e", "s", "t", "o", "y", " ", "s", "e", "g", "u", "r", "o">>, <<"d", "é", "j", "a", "m", "e", " ", "p", "e", "n", "s", "a", "r", "l", "o">> >>

INFO_REQUEST_KEYWORDS ==
    << <<"i", "n", "f", "o", "r", "m", "a", "c", "i", "ó", "n">>, <<"d", "e", "t", "a", "l", "l", "e", "s">>,
       <<"e", "x", "p", "l", "i", "c", "a">>, <<"c", "ó", "m", "o">>,
       <<"q", "u", "é">>, <<"c", "u", "á", "l">>,
       <<"c", "u", "á", "n", "t", "o">>, <<"c", "u", "á", "n", "d", "o">>,
       <<"d", "ó", "n", "d", "e">>, <<"p", "o", "r", " ", "q", "u", "é">>,
       <<"m", "á", "s", " ", "i", "n", "f", "o">>, <<"d", "i", "m", "e", " ", "m", "á", "s">> >>

OBJECTION_KEYWORDS ==
    << <<"p", "e", "r", "o">>, <<"s", "i", "n", " ", "e", "m", "b", "a", "r", "g", "o">>,
       <<"a", "u", "n", "q", "u", "e">>, <<"e", "l", " ", "p", "r", "o", "b", "l", "e", "m", "a", " ", "e", "s">>,
       <<"m", "e", " ", "p", "r", "e", "o", "c", "u", "p", "a">>, <<"n", "o", " ", "e", "s", "t", "o", "y", " ", "c", "o", "n", "v", "e", "n", "c", "i", "d", "o">>,
       <<"d", "u", "d", "a", "s">>, <<"r", "i", "e", "s", "g", "o">>,
       <<"c", "a", "r", "o">>, <<"c", "o", "s", "t", "o", "s", "o">> >>

EMPLOYMENT_KEYWORDS ==
    << <<"e", "m", "p", "l", "e", "a", "d", "o">>, <<"t", "r", "a", "b", "a", "j", "o">>,
       <<"e", "m", "p", "r", "e", "s", "a">>, <<"e", "m", "p", "l", "e", "a", "d", "a">>,
       <<"o", "f", "i", "c", "i", "n", "a">>, <<"s", "u", "e", "l", "d", "o">>,
       <<"n", "e", "g", "o", "c", "i", "o">>, <<"p", "r", "o", "p", "i", "o">>,
       <<"e", "m", "p", "r", "e", "s", "a", "r", "i", "o">>, <<"c", "o", "m", "e", "r", "c", "i", "o">>,
       <<"d", "u", "e", "ñ", "o">>, <<"i", "n", "d", "e", "p", "e", "n", "d", "i", "e", "n", "t", "e">>,
       <<"f", "r", "e", "e", "l", "a", "n", "c", "e">>, <<"i", "n", "d", "e", "p", "e", "n", "d", "i", "e", "n", "t", "e">>,
       <<"p", "o", "r", " ", "m", "i", " ", "c", "u", "e", "n", "t", "a">>, <<"p", "r", "o", "y", "e", "c", "t", "o", "s">>,
       <<"j", "u", "b", "i", "l", "a", "d", "o">>, <<"p", "e", "n", "s", "i", "o", "n", "a", "d", "o">>,
       <<"r", "e", "t", "i", "r", "a", "d", "o">>, <<"t", "e", "r", "c", "e", "r", "a", " ", "e", "d", "a", "d">>,
       <<"e", "s", "t", "u", "d", "i", "a", "n", "t", "e">>, <<"e", "s", "t", "u", "d", "i", "o">>,
       <<"u", "n", "i", "v", "e", "r", "s", "i", "d", "a", "d">>, <<"c", "a", "r", "r", "e", "r", "a">>,
       <<"d", "e", "s", "e", "m", "p", "l", "e", "a", "d", "o">>, <<"s", "i", "n", " ", "t", "r", "a", "b", "a", "j", "o">>,
       <<"b", "u", "s", "c", "a", "n", "d", "o", " ", "t", "r", "a", "b", "a", "j", "o">>, <<"c", "e", "s", "a", "n", "t", "e">> >>

\* analyze with the negative lexicon tried before the positive one
analyze_NegativeFirst(message, current_step) ==
    LET message_lower == Strip(Lower(message))
    IN  IF AnyIn(NEGATIVE_KEYWORDS, message_lower) THEN "negative"
        ELSE IF AnyIn(POSITIVE_KEYWORDS, message_lower) THEN "positive"
        ELSE IF AnyIn(INFO_REQUEST_KEYWORDS, message_lower) THEN "request_info"
        ELSE IF AnyIn(OBJECTION_KEYWORDS, message_lower) THEN "objection"
        ELSE IF /\ current_step \in {"collect_income", "collect_amount"}
                /\ \E i \in 1..Len(message) : message[i] \in Digits
             THEN "neutral"
        ELSE IF AnyIn(EMPLOYMENT_KEYWORDS, message_lower) THEN "neutral"
        ELSE "unclear"

\* IntentAnalyzer.analyze: first matching rule wins
analyze(message, current_step) ==
    LET message_lower == Strip(Lower(message))
    IN  IF AnyIn(POSITIVE_KEYWORDS, message_lower) THEN "positive"
        ELSE IF AnyIn(NEGATIVE_KEYWORDS, message_lower) THEN "negative"
        ELSE IF AnyIn(INFO_REQUEST_KEYWORDS, message_lower) THEN "request_info"
        ELSE IF AnyIn(OBJECTION_KEYWORDS, message_lower) THEN "objection"
        ELSE IF /\ current_step \in {"collect_income", "collect_amount"}
                /\ \E i \in 1..Len(message) : message[i] \in Digits
             THEN "neutral"
        ELSE IF AnyIn(EMPLOYMENT_KEYWORDS, message_lower) THEN "neutral"
        ELSE "unclear"

-----------------------------------------------------------------------------
(* DataExtractor (app/core/prompts.py)                                     *)

\* end of the maximal run of digits that starts at position i
RECURSIVE DigitRunEnd(_, _)
DigitRunEnd(s, i) ==
    IF i < Len(s) /\ s[i + 1] \in Digits THEN DigitRunEnd(s, i + 1) ELSE i

\* int() of the digits s[i..j]
RECURSIVE DigitsValue(_, _, _)
DigitsValue(s, i, j) ==
    IF j < i THEN 0 ELSE DigitsValue(s, i, j - 1) * 10 + DigitVal(s[j])

\* re.findall(r'\d+(?:,\d{3})*(?:\.\d{2})?', s) from position i, as floats;
\* s has no commas, so the grouping part of the pattern never matches
RECURSIVE FindNumbersFrom(_, _)
FindNumbersFrom(s, i) ==
    IF i > Len(s) THEN <<>>
    ELSE IF s[i] \notin Digits THEN FindNumbersFrom(s, i + 1)
    ELSE LET j == DigitRunEnd(s, i)
             decimals == /\ j + 3 <= Len(s)
                         /\ s[j + 1] = "."
                         /\ s[j + 2] \in Digits
                         /\ s[j + 3] \in Digits
         IN  IF decimals
             THEN <<Float(DigitsValue(s, i, j), DigitsValue(s, j + 2, j + 3))>>
                      \o FindNumbersFrom(s, j + 4)
             ELSE <<Float(DigitsValue(s, i, j), 0)>> \o FindNumbersFrom(s, j + 1)

FindNumbers(message) == FindNumbersFrom(RemoveCommas(message), 1)

Entre == <<"e", "n", "t", "r", "e">>

Max(a, b) == IF a >= b THEN a ELSE b

\* DataExtractor.extract_income
extract_income(message) ==
    LET numbers == FindNumbers(message)
    IN  IF numbers = <<>> THEN NoneV
        ELSE IF Contains(Lower(message), Entre) /\ Len(numbers) >= 2
             THEN Num((numbers[1] + numbers[2]) \div 2)
        ELSE Num(numbers[1])

KW_employee ==
    << <<"e", "m", "p", "l", "e", "a", "d", "o">>, <<"t", "r", "a", "b", "a", "j", "o">>,
       <<"e", "m", "p", "r", "e", "s", "a">>, <<"e", "m", "p", "l", "e", "a", "d", "a">>,
       <<"o", "f", "i", "c", "i", "n", "a">>, <<"s", "u", "e", "l", "d", "o">> >>

KW_business_owner ==
    << <<"n", "e", "g", "o", "c", "i", "o">>, <<"p", "r", "o", "p", "i", "o">>,
       <<"e", "m", "p", "r", "e", "s", "a", "r", "i", "o">>, <<"c", "o", "m", "e", "r", "c", "i", "o">>,
       <<"d", "u", "e", "ñ", "o">>, <<"i", "n", "d", "e", "p", "e", "n", "d", "i", "e", "n", "t", "e">> >>

KW_freelancer ==
    << <<"f", "r", "e", "e", "l", "a", "n", "c", "e">>, <<"i", "n", "d", "e", "p", "e", "n", "d", "i", "e", "n", "t", "e">>,
       <<"p", "o", "r", " ", "m", "i", " ", "c", "u", "e", "n", "t", "a">>, <<"p", "r", "o", "y", "e", "c", "t", "o", "s">> >>

KW_retired ==
    << <<"j", "u", "b", "i", "l", "a", "d", "o">>, <<"p", "e", "n", "s", "i", "o", "n", "a", "d", "o">>,
       <<"r", "e", "t", "i", "r", "a", "d", "o">>, <<"t", "e", "r", "c", "e", "r", "a", " ", "e", "d", "a", "d">> >>

KW_student ==
    << <<"e", "s", "t", "u", "d", "i", "a", "n", "t", "e">>, <<"e", "s", "t", "u", "d", "i", "o">>,
       <<"u", "n", "i", "v", "e", "r", "s", "i", "d", "a", "d">>, <<"c", "a", "r", "r", "e", "r", "a">> >>

KW_unemployed ==
    << <<"d", "e", "s", "e", "m", "p", "l", "e", "a", "d", "o">>, <<"s", "i", "n", " ", "t", "r", "a", "b", "a", "j", "o">>,
       <<"b", "u", "s", "c", "a", "n", "d", "o", " ", "t", "r", "a", "b", "a", "j", "o">>, <<"c", "e", "s", "a", "n", "t", "e">> >>

\* DataExtractor.extract_employment: first category, in dict order, that matches
extract_employment(message) ==
    LET message_lower == Lower(message)
    IN  IF AnyIn(KW_employee, message_lower) THEN Str("employee")
        ELSE IF AnyIn(KW_business_owner, message_lower) THEN Str("business_owner")
        ELSE IF AnyIn(KW_freelancer, message_lower) THEN Str("freelancer")
        ELSE IF AnyIn(KW_retired, message_lower) THEN Str("retired")
        ELSE IF AnyIn(KW_student, message_lower) THEN Str("student")
        ELSE IF AnyIn(KW_unemployed, message_lower) THEN Str("unemployed")
        ELSE NoneV

\* extract_amount that takes the first number of a range
extract_amount_First(message) ==
    LET numbers == FindNumbers(message)
    IN  IF numbers = <<>> THEN NoneV ELSE Num(numbers[1])

\* DataExtractor.extract_amount
extract_amount(message) ==
    LET numbers == FindNumbers(message)
    IN  IF numbers = <<>> THEN NoneV
        ELSE IF Contains(Lower(message), Entre) /\ Len(numbers) >= 2
             THEN Num(Max(numbers[1], numbers[2]))
        ELSE Num(numbers[1])

\* PromptBuilder.extract_data
extract_data(message, data_type) ==
    CASE data_type = "income" -> extract_income(message)
      [] data_type = "employment" -> extract_employment(message)
      [] data_type = "amount" -> extract_amount(message)
      [] OTHER -> NoneV

-----------------------------------------------------------------------------
(* collected_data: the four keys the engine ever writes; NoneV = key absent *)

EmptyData ==
    [ monthly_income |-> NoneV, employment_type |-> NoneV,
      requested_amount |-> NoneV, budget |-> NoneV ]

DataKeys(data) == {k \in DOMAIN data : data[k] # NoneV}

-----------------------------------------------------------------------------
(* ConversationFlowManager (app/core/prompts.py)                           *)

\* _has_valid_income without the lower bound
_has_valid_income_NoMinimum(data) ==
    LET income == data.monthly_income
    IN  income.t = "num" /\ income.n <= Float(50000, 0)

\* _has_valid_income: isinstance(income, (int, float)) and 500 <= income <= 50000
_has_valid_income(data) ==
    LET income == data.monthly_income
    IN  income.t = "num" /\ Float(500, 0) <= income.n /\ income.n <= Float(50000, 0)

valid_types ==
    {"employee", "business_owner", "freelancer", "retired", "student", "unemployed"}

\* _has_valid_employment
_has_valid_employment(data) ==
    LET employment == data.employment_type
    IN  employment.t = "str" /\ employment.s \in valid_types

\* _has_valid_amount: isinstance(amount, (int, float)) and amount > 0
_has_valid_amount(data) ==
    LET amount == data.requested_amount
    IN  amount.t = "num" /\ amount.n > 0

\* _get_clarification_next_step testing the amount before the employment
_get_clarification_next_step_AmountFirst(data) ==
    IF ~_has_valid_income(data) THEN "collect_income"
    ELSE IF ~_has_valid_amount(data) THEN "collect_amount"
    ELSE IF ~_has_valid_employment(data) THEN "collect_employment"
    ELSE "present_offer"

\* _get_clarification_next_step
_get_clarification_next_step(data) ==
    IF ~_has_valid_income(data) THEN "collect_income"
    ELSE IF ~_has_valid_employment(data) THEN "collect_employment"
    ELSE IF ~_has_valid_amount(data) THEN "collect_amount"
    ELSE "present_offer"

\* get_next_step, the branch of present_offer
present_offer_next(intent) ==
    IF intent = "positive" THEN "awaiting_decision"
    ELSE IF intent = "request_info" THEN "present_offer"
    ELSE IF intent = "objection" THEN "handle_objection"
    ELSE "request_clarification"

\* the awaiting_decision branch asking again when the intent is not a decision
awaiting_decision_next_Clarify(intent) ==
    IF intent = "positive" THEN "close_positive"
    ELSE IF intent = "negative" THEN "close_negative"
    ELSE "request_clarification"

\* get_next_step, the branch of awaiting_decision
awaiting_decision_next(intent) ==
    IF intent = "positive" THEN "close_positive"
    ELSE IF intent = "negative" THEN "close_negative"
    ELSE "awaiting_decision"

\* the handle_objection branch handling a repeated objection again
handle_objection_next_Again(intent) ==
    IF intent = "positive" THEN "awaiting_decision"
    ELSE IF intent = "request_info" THEN "present_offer"
    ELSE IF intent = "objection" THEN "handle_objection"
    ELSE "close_negative"

\* get_next_step, the branch of handle_objection
handle_objection_next(intent) ==
    IF intent = "positive" THEN "awaiting_decision"
    ELSE IF intent = "request_info" THEN "present_offer"
    ELSE "close_negative"

\* a final else that leaves the step as it is
unrecognized_next_Stay(current_step) == current_step

\* a final else that starts the conversation again
unrecognized_next_Restart(current_step) == "greeting"

\* get_next_step, the final else: a step with no branch of its own
unrecognized_next(current_step) == "error"

\* get_next_step; ConversationStep(current_step) and IntentType(intent) raise
\* ValueError on an unknown value, which the function turns into "error"
get_next_step(current_step, intent, collected_data) ==
    IF current_step \notin ConversationStep \/ intent \notin IntentType THEN "error"
    ELSE IF intent = "negative" THEN "close_negative"
    ELSE CASE current_step = "greeting" ->
                IF intent = "positive" THEN "collect_income"
                ELSE "request_clarification"
           [] current_step = "collect_income" ->
                IF _has_valid_income(collected_data) THEN "collect_employment"
                ELSE "collect_income"
           [] current_step = "collect_employment" ->
                IF _has_valid_employment(collected_data) THEN "collect_amount"
                ELSE "collect_employment"
           [] current_step = "collect_amount" ->
                IF _has_valid_amount(collected_data) THEN "present_offer"
                ELSE "collect_amount"
           [] current_step = "present_offer" -> present_offer_next(intent)
           [] current_step = "awaiting_decision" -> awaiting_decision_next(intent)
           [] current_step = "handle_objection" -> handle_objection_next(intent)
           [] current_step = "request_clarification" ->
                _get_clarification_next_step(collected_data)
           [] OTHER -> unrecognized_next(current_step)

\* is_conversation_complete
is_conversation_complete(current_step) ==
    current_step \in {"close_positive", "close_negative", "completed", "error"}

step_order ==
    << "greeting", "collect_income", "collect_employment", "collect_amount",
       "present_offer", "awaiting_decision", "close_positive" >>

required_fields == <<"monthly_income", "employment_type", "requested_amount">>

\* sum(1 for field in required_fields if collected_data.get(field) is not None)
completed_fields(collected_data) ==
    Cardinality({i \in 1..Len(required_fields) :
                    collected_data[required_fields[i]] # NoneV})

\* the percentage rounded to the nearest integer instead of truncated
data_completeness_Rounded(collected_data) ==
    (completed_fields(collected_data) * 200 + Len(required_fields))
        \div (2 * Len(required_fields))

\* int((completed_fields / len(required_fields)) * 100)
data_completeness(collected_data) ==
    (completed_fields(collected_data) * 100) \div Len(required_fields)

\* int((current_index / len(step_order)) * 100), 50 for a step off the main path
progress_percentage(current_step) ==
    IF \E i \in 1..Len(step_order) : step_order[i] = current_step
    THEN (((CHOOSE i \in 1..Len(step_order) : step_order[i] = current_step) - 1)
             * 100) \div Len(step_order)
    ELSE 50

\* get_conversation_progress; an unknown step raises inside and yields zeros
get_conversation_progress(current_step, collected_data) ==
    IF current_step \notin ConversationStep
    THEN [ progress_percentage |-> 0, data_completeness |-> 0,
           is_complete |-> FALSE, collected_fields |-> 0 ]
    ELSE [ progress_percentage |-> progress_percentage(current_step),
           data_completeness |-> data_completeness(collected_data),
           is_complete |-> is_conversation_complete(current_step),
           collected_fields |-> completed_fields(collected_data) ]

-----------------------------------------------------------------------------
(* Texts.  kind names the text, arg the step it was built for (for a user  *)
(* message: the utterance), period whether _clean_response appended ".".   *)
(*   llm          a reply of the text-generation backend ending in . ! ?   *)
(*   llm_open     a reply of the backend without terminal punctuation      *)
(*   empty        the empty string                                         *)
(*   rendered     the step template with every variable filled in          *)
(*   template     the raw, un-rendered step template                       *)
(*   no_template  "Continúa la conversación apropiadamente."               *)
(*   negative     the canned closing of _generate_negative_response        *)
(*   default      "¿En qué puedo ayudarte?"                                *)
(*   technical    "Disculpa, hubo un error técnico. ¿Podemos continuar?"   *)
(*   problem      "Disculpa, tengo un problema técnico momentáneo. ..."    *)
(*   unavailable  "Disculpa, tengo problemas técnicos en este momento..."  *)
(*   no_response  "Disculpa, tengo problemas técnicos. ¿Podrías ..."       *)
(*   no_campaign  "Gracias por contactarnos. En este momento ..."          *)
(*   unknown_step "Continúa la conversación apropiadamente para el paso: X"*)
(*   greeting     the proactive greeting of start_chat                     *)
(*   user         an inbound utterance                                     *)
(*   none         no text                                                  *)

Text(kind, arg) == [kind |-> kind, arg |-> arg, period |-> FALSE]

NoText == Text("none", "")

\* STEP_TEMPLATES: the placeholders of each step's template
TemplateVars(step) ==
    CASE step = "greeting" -> {"user_name", "product_type_display", "segment_greeting"}
      [] step = "collect_income" -> {"confirmation_phrase", "income_context"}
      [] step = "collect_employment" -> {"monthly_income"}
      [] step = "collect_amount" -> {"employment_acknowledgment", "amount_question"}
      [] step = "present_offer" -> {"offer_details"}
      [] step = "awaiting_decision" -> {"decision_prompt"}
      [] step = "close_positive" -> {"user_name", "product_type_display"}
      [] step = "close_negative" -> {"user_name"}
      [] step = "handle_objection" -> {"objection_topic", "objection_response"}
      [] step = "request_clarification" -> {"clarification_examples"}
      [] OTHER -> {}

\* the steps STEP_TEMPLATES has an entry for
TemplateSteps ==
    { "greeting", "collect_income", "collect_employment", "collect_amount",
      "present_offer", "awaiting_decision", "close_positive", "close_negative",
      "handle_objection", "request_clarification" }

\* StepPromptBuilder._get_step_specific_vars
_get_step_specific_vars(step) ==
    CASE step = "collect_income" -> {"confirmation_phrase", "income_context"}
      [] step = "collect_employment" -> {"employment_acknowledgment"}
      [] step = "collect_amount" -> {"amount_question"}
      [] step = "present_offer" -> {"offer_details"}
      [] OTHER -> {}

\* a build that never renders: the raw template of the step
StepPromptBuilder_build_Raw(step, collected_data, extra_vars) ==
    IF step \notin TemplateSteps THEN Text("no_template", step)
    ELSE Text("template", step)

\* StepPromptBuilder.build with BasePromptTemplate.render: the template is
\* rendered when str.format finds every placeholder, and returned raw on KeyError
StepPromptBuilder_build(step, collected_data, extra_vars) ==
    IF step \notin TemplateSteps THEN Text("no_template", step)
    ELSE LET variables == {"user_name", "product_type_display", "segment_greeting"}
                             \cup DataKeys(collected_data) \cup extra_vars
                             \cup _get_step_specific_vars(step)
         IN  IF TemplateVars(step) \subseteq variables
             THEN Text("rendered", step)
             ELSE Text("template", step)

\* PromptBuilder.build_step_prompt (product type and segment are valid enum values)
build_step_prompt(step, collected_data, extra_vars) ==
    IF step \notin ConversationStep THEN Text("unknown_step", step)
    ELSE StepPromptBuilder_build(step, collected_data, extra_vars)

\* does the text end with one of . ! ?  (read off the literals in the source)
EndsWithPunctuation(text) ==
    CASE text.kind = "llm" -> TRUE
      [] text.kind = "llm_open" -> FALSE
      [] text.kind = "rendered" ->
            text.arg \notin {"close_negative", "request_clarification"}
      [] text.kind = "template" ->
            text.arg \notin { "collect_income", "collect_amount",
                              "close_negative", "request_clarification" }
      [] text.kind = "unknown_step" -> FALSE
      [] OTHER -> TRUE

\* _clean_response (every text of the model is shorter than 500 characters)
_clean_response(response) ==
    IF response.kind \in {"empty", "none"} THEN Text("default", "")
    ELSE [response EXCEPT !.period = ~EndsWithPunctuation(response)]

\* _generate_negative_response
_generate_negative_response == Text("negative", "")

\* replies of the text-generation backend; "fail" is an exception or a timeout
LLMOutcomes == {"llm", "llm_open", "empty", "fail"}

\* _generate_llm_response: the backend's reply, or on failure the step prompt
_generate_llm_response(step, collected_data, extra_vars, llm) ==
    IF llm = "fail" THEN build_step_prompt(step, collected_data, extra_vars)
    ELSE Text(llm, step)

-----------------------------------------------------------------------------
(* State.                                                                  *)
(*   db     the conversation_logs row of the contact's session             *)
(*   leads  the number of rows of the leads table for the session          *)
(*   pc     where handle_builderbot_message stands: "idle" between two     *)
(*          messages, "received" with a message to handle, then the        *)
(*          pipeline stage about to run                                    *)
(*   state  the ConversationState passed through the pipeline              *)
(*   resp   the AgentResponse the webhook returned last                    *)
(*   run    what happened in the current (or last) pipeline run; its field *)
(*          offered records that an earlier run of the session ended at    *)
(*          present_offer                                                  *)
(*   fnIn, fnOut  argument and result of a function applied on its own     *)

VARIABLES db, leads, pc, state, resp, run, fnIn, fnOut

vars == <<db, leads, pc, state, resp, run, fnIn, fnOut>>

\* leads after which no further inbound message is explored
MaxLeads == 2

NoRow ==
    [ exists |-> FALSE, current_step |-> "greeting",
      collected_data |-> EmptyData, intent_confirmed |-> "None" ]

\* the row save_conversation_log writes (INSERT ... ON CONFLICT (session_id) DO UPDATE)
Row(st) ==
    [ exists |-> TRUE, current_step |-> st.current_step,
      collected_data |-> st.collected_data,
      intent_confirmed |-> st.intent_confirmed ]

NoState ==
    [ current_step |-> "greeting", collected_data |-> EmptyData,
      messages |-> <<>>, intent_confirmed |-> "None",
      detected_intent |-> "None", lead_generated |-> "None",
      lead_id |-> "None", save_error |-> "None" ]

Message(role, content) == [role |-> role, content |-> content]

NoResp ==
    [ status |-> "none", response |-> NoText, step |-> "",
      intent_confirmed |-> "None", raised |-> FALSE ]

AgentResponse(status, response, step, intent_confirmed) ==
    [ status |-> status, response |-> response, step |-> step,
      intent_confirmed |-> intent_confirmed, raised |-> FALSE ]

NoRun ==
    [ utterance |-> "", start_step |-> "none", before |-> EmptyData,
      classified |-> "none", intent |-> "none", faults |-> {}, llm |-> "none",
      table_step |-> "none", gen_step |-> "none", answered |-> "none",
      generated |-> NoText, completeness |-> -1, lead_due |-> FALSE,
      lead_saved |-> FALSE, finished |-> FALSE, offered |-> FALSE ]

NoFn == [f |-> "none"]

Init ==
    /\ db = NoRow
    /\ leads = 0
    /\ pc = "idle"
    /\ state = NoState
    /\ resp = NoResp
    /\ run = NoRun
    /\ fnIn = NoFn
    /\ fnOut = NoFn

-----------------------------------------------------------------------------
(* ConversationRepository (app/database/repository.py)                     *)

\* get_current_step: the row's step, "greeting" without a row
get_current_step(row) == IF row.exists THEN row.current_step ELSE "greeting"

-----------------------------------------------------------------------------
(* handle_builderbot_message up to process_message (app/api/webhooks.py)   *)
(* with ConversationAgent.create_initial_state                             *)

\* _get_previous_collected_data: ConversationRepository defines no
\* get_conversation_state, so the call raises AttributeError and the except
\* branch returns {}
_get_previous_collected_data(row) == EmptyData

\* _build_conversation_state
_build_conversation_state(message, current_step, previous_data) ==
    [ current_step |-> current_step,
      collected_data |-> previous_data,
      messages |-> <<Message("user", Text("user", message))>>,
      intent_confirmed |-> "None",
      detected_intent |-> "None",
      lead_generated |-> "None",
      lead_id |-> "None",
      save_error |-> "None" ]

\* a handler without its except branch: the exception leaves the endpoint
HandlerRaises ==
    [ status |-> "none", response |-> NoText, step |-> "",
      intent_confirmed |-> "None", raised |-> TRUE ]

\* the except branch of handle_builderbot_message
HandlerExcept ==
    AgentResponse("error", Text("unavailable", ""), "error", "False")

\* a BuilderBotMessage arrives at the webhook
Inbound ==
    /\ pc = "idle"
    /\ leads < MaxLeads
    /\ \E u \in Utterances :
          run' = [NoRun EXCEPT !.utterance = u, !.offered = run.offered]
    /\ state' = NoState
    /\ resp' = NoResp
    /\ pc' = "received"
    /\ UNCHANGED <<db, leads, fnIn, fnOut>>

\* get_user_by_phone returns None: the contact is in no active campaign, or the
\* lookup failed (the repository swallows the error)
ReceiveNoCampaign ==
    /\ pc = "received"
    /\ run' = [run EXCEPT !.faults = {"no_user"},
                          !.start_step = get_current_step(db)]
    /\ resp' = AgentResponse("no_campaign", Text("no_campaign", ""),
                             "not_eligible", "False")
    /\ pc' = "idle"
    /\ UNCHANGED <<db, leads, state, fnIn, fnOut>>

\* create_initial_state raises: ValueError on an empty message, or the
\* get_current_step query fails; the handler's except branch answers
ReceiveFault ==
    /\ pc = "received"
    /\ run' = [run EXCEPT !.faults = IF run.utterance = ""
                                     THEN {"empty_message"}
                                     ELSE {"get_current_step"},
                          !.start_step = get_current_step(db)]
    /\ resp' = HandlerExcept
    /\ pc' = "idle"
    /\ UNCHANGED <<db, leads, state, fnIn, fnOut>>

\* create_initial_state succeeds; _save_initial_state swallows a failed save
Receive ==
    /\ pc = "received"
    /\ run.utterance # ""
    /\ \E saved \in BOOLEAN :
          LET st == _build_conversation_state(run.utterance, get_current_step(db),
                                              _get_previous_collected_data(db))
          IN  /\ state' = st
              /\ db' = IF saved THEN Row(st) ELSE db
              /\ run' = [run EXCEPT
                            !.start_step = st.current_step,
                            !.before = db.collected_data,
                            !.faults = IF saved THEN {} ELSE {"save_initial"}]
    /\ pc' = "analyze"
    /\ UNCHANGED <<leads, resp, fnIn, fnOut>>

-----------------------------------------------------------------------------
(* ConversationAgent.analyze_message (app/services/langraph_agent.py)      *)

\* intent_confirmed from the intent
IntentConfirmed(intent) ==
    IF intent = "positive" THEN "True"
    ELSE IF intent = "negative" THEN "False"
    ELSE "None"

\* the typed extraction for the current step; a falsy result is not stored
ExtractForStep(collected_data, message, current_step) ==
    CASE current_step = "collect_income" ->
            LET income == extract_data(message, "income")
            IN  IF Truthy(income)
                THEN [collected_data EXCEPT !.monthly_income = income]
                ELSE collected_data
      [] current_step = "collect_employment" ->
            LET employment == extract_data(message, "employment")
            IN  IF Truthy(employment)
                THEN [collected_data EXCEPT !.employment_type = employment]
                ELSE collected_data
      [] current_step = "collect_amount" ->
            LET amount == extract_data(message, "amount")
            IN  IF Truthy(amount)
                THEN [collected_data EXCEPT !.requested_amount = amount]
                ELSE collected_data
      [] OTHER -> collected_data

\* the regex fallback: the first number, into budget or monthly_income
RegexFallback(collected_data, message, current_step) ==
    IF /\ ~Truthy(collected_data.monthly_income)
       /\ current_step \in {"collect_income", "collect_budget"}
       /\ FindNumbers(message) # <<>>
    THEN IF current_step = "collect_budget"
         THEN [collected_data EXCEPT !.budget = Num(FindNumbers(message)[1])]
         ELSE [collected_data EXCEPT !.monthly_income = Num(FindNumbers(message)[1])]
    ELSE collected_data

\* the whole extraction of analyze_message
ExtractData(collected_data, message, current_step) ==
    RegexFallback(ExtractForStep(collected_data, message, current_step),
                  message, current_step)

\* the state analyze_message returns.  fault "log": save_conversation_log
\* raises before anything is analysed; fault "message": save_message raises
\* after the analysis.  Either way the except branch sets detected_intent to
\* "unclear".
AnalyzedState(st, fault) ==
    LET user_message == Chars(st.messages[Len(st.messages)].content.arg)
        current_step == st.current_step
        intent == analyze(user_message, current_step)
    IN  IF fault = "log"
        THEN [st EXCEPT !.detected_intent = "unclear"]
        ELSE [st EXCEPT
                !.intent_confirmed = IntentConfirmed(intent),
                !.detected_intent = IF fault = "message" THEN "unclear" ELSE intent,
                !.collected_data = ExtractData(@, user_message, current_step)]

AnalyzeMessage ==
    /\ pc = "analyze"
    /\ \E fault \in {"none", "log", "message"} :
          LET user_message == Chars(state.messages[Len(state.messages)].content.arg)
              current_step == state.current_step
              intent == analyze(user_message, current_step)
          IN  IF fault = "log"
              THEN /\ state' = AnalyzedState(state, fault)
                   /\ run' = [run EXCEPT !.faults = @ \cup {"save_log_analyze"}]
                   /\ db' = db
              ELSE /\ db' = Row(state)
                   /\ state' = AnalyzedState(state, fault)
                   /\ run' = [run EXCEPT
                                !.classified = intent,
                                !.faults = IF fault = "message"
                                           THEN @ \cup {"save_user_message"}
                                           ELSE @]
    /\ pc' = "generate"
    /\ UNCHANGED <<leads, resp, fnIn, fnOut>>

-----------------------------------------------------------------------------
(* ConversationAgent.generate_response                                     *)

\* a generate_response that takes every positive answer for an acceptance
Branch_AcceptAnywhere(current_step, intent, table_step) ==
    IF intent = "negative" /\ current_step # "greeting" THEN "negative"
    ELSE IF intent = "positive" THEN "accept"
    ELSE IF table_step = "present_offer" THEN "offer"
    ELSE "standard"

\* which branch of generate_response answers
Branch(current_step, intent, table_step) ==
    IF intent = "negative" /\ current_step # "greeting" THEN "negative"
    ELSE IF current_step = "present_offer" /\ intent = "positive" THEN "accept"
    ELSE IF table_step = "present_offer" THEN "offer"
    ELSE "standard"

\* the next_step the branch leaves in force
NextStep(current_step, intent, table_step) ==
    CASE Branch(current_step, intent, table_step) = "negative" -> "close_negative"
      [] Branch(current_step, intent, table_step) = "accept" -> "close_positive"
      [] OTHER -> table_step

\* the step whose prompt is generated
AnsweredStep(current_step, intent, table_step) ==
    CASE Branch(current_step, intent, table_step) = "accept" -> "close_positive"
      [] Branch(current_step, intent, table_step) = "offer" -> "present_offer"
      [] OTHER -> table_step

\* the response before cleaning
Response(current_step, intent, table_step, collected_data, llm) ==
    CASE Branch(current_step, intent, table_step) = "negative" ->
            _generate_negative_response
      [] Branch(current_step, intent, table_step) = "offer" ->
            _generate_llm_response("present_offer", collected_data,
                                   {"offer_details"}, llm)
      [] OTHER ->
            _generate_llm_response(AnsweredStep(current_step, intent, table_step),
                                   collected_data, {}, llm)

\* a generate_response that leaves the step alone when the backend gave no
\* text of its own
GeneratedState_BackendStep(st, llm, fault) ==
    LET current_step == st.current_step
        intent == IF st.detected_intent = "None" THEN "unclear"
                  ELSE st.detected_intent
        table_step == get_next_step(current_step, intent, st.collected_data)
        response == _clean_response(
                       Response(current_step, intent, table_step,
                                st.collected_data, llm))
        answered == [st EXCEPT
                       !.messages = Append(@, Message("assistant", response)),
                       !.current_step =
                           IF llm \in {"fail", "empty"} THEN current_step
                           ELSE NextStep(current_step, intent, table_step)]
    IN  IF fault = "none" THEN answered
        ELSE [answered EXCEPT
                !.messages = Append(@, Message("assistant", Text("technical", "")))]

\* the state generate_response has built when it returns or raises.
\* fault "agent": the save_message of the reply raises, the except branch
\* appends the technical fallback and saves it; fault "twice": that second
\* save_message raises too and the exception leaves the graph
GeneratedState(st, llm, fault) ==
    LET current_step == st.current_step
        intent == IF st.detected_intent = "None" THEN "unclear"
                  ELSE st.detected_intent
        table_step == get_next_step(current_step, intent, st.collected_data)
        response == _clean_response(
                       Response(current_step, intent, table_step,
                                st.collected_data, llm))
        answered == [st EXCEPT
                       !.messages = Append(@, Message("assistant", response)),
                       !.current_step = NextStep(current_step, intent, table_step)]
    IN  IF fault = "none" THEN answered
        ELSE [answered EXCEPT
                !.messages = Append(@, Message("assistant", Text("technical", "")))]

GenerateResponse ==
    /\ pc = "generate"
    /\ LET current_step == state.current_step
           intent == IF state.detected_intent = "None" THEN "unclear"
                     ELSE state.detected_intent
           collected_data == state.collected_data
           table_step == get_next_step(current_step, intent, collected_data)
           branch == Branch(current_step, intent, table_step)
           next_step == NextStep(current_step, intent, table_step)
       IN  \E llm \in IF branch = "negative" THEN {"none"} ELSE LLMOutcomes,
              fault \in {"none", "agent", "twice"} :
              LET response == _clean_response(
                     Response(current_step, intent, table_step, collected_data, llm))
              IN  /\ state' = GeneratedState(state, llm, fault)
                  /\ run' = [run EXCEPT
                               !.intent = intent,
                               !.llm = llm,
                               !.table_step = table_step,
                               !.gen_step = next_step,
                               !.answered = IF branch = "negative" THEN "none"
                                            ELSE AnsweredStep(current_step, intent,
                                                              table_step),
                               !.generated = response,
                               !.faults = @ \cup
                                   (CASE fault = "none" -> {}
                                      [] fault = "agent" -> {"save_agent_message"}
                                      [] fault = "twice" -> {"save_agent_message",
                                                             "save_fallback_message"})]
                  /\ pc' = IF fault = "twice" THEN "failed" ELSE "save"
    /\ UNCHANGED <<db, leads, resp, fnIn, fnOut>>

-----------------------------------------------------------------------------
(* ConversationAgent.process_message, except branch                        *)

\* graph.ainvoke raised: the state handed to process_message gets the error
\* message and the step "error".  Its collected_data is the dict the nodes
\* updated in place; its other keys are as create_initial_state set them.
\* The save_message of the error message may fail; that is ignored.
ProcessMessageError ==
    /\ pc = "failed"
    /\ state' = [ current_step |-> "error",
                  collected_data |-> state.collected_data,
                  messages |-> <<state.messages[1],
                                 Message("assistant", Text("problem", ""))>>,
                  intent_confirmed |-> "None",
                  detected_intent |-> "None",
                  lead_generated |-> "None",
                  lead_id |-> "None",
                  save_error |-> "None" ]
    /\ pc' = "respond"
    /\ UNCHANGED <<db, leads, resp, run, fnIn, fnOut>>

-----------------------------------------------------------------------------
(* ConversationAgent.save_conversation                                     *)

\* LeadCondition without the step and the completeness test
LeadConditionIntentOnly(st, progress) ==
    st.intent_confirmed = "True"

\* LeadCondition without the completeness test
LeadConditionAnyData(st, progress) ==
    /\ st.current_step = "close_positive"
    /\ st.intent_confirmed = "True"

\* the condition under which save_conversation creates a lead (lead_repo is set)
LeadCondition(st, progress) ==
    /\ st.current_step = "close_positive"
    /\ st.intent_confirmed = "True"
    /\ progress.data_completeness >= 75

\* the state after save_lead returned the id of the new lead
LeadSaved(st) == [st EXCEPT !.lead_generated = "True", !.lead_id = "lead"]

\* a failed save_lead that leaves no mark on the state
LeadFailed_Unmarked(st) == st

\* the state after save_lead raised
LeadFailed(st) == [st EXCEPT !.lead_generated = "False"]

\* fault "log": save_conversation_log raises and the outer except ends the
\* stage; fault "lead": save_lead raises
SaveConversation ==
    /\ pc = "save"
    /\ LET progress == get_conversation_progress(state.current_step,
                                                 state.collected_data)
           due == LeadCondition(state, progress)
       IN  \E fault \in {"none", "log"} \cup (IF due THEN {"lead"} ELSE {}) :
              /\ db' = IF fault = "log" THEN db ELSE Row(state)
              /\ leads' = IF due /\ fault = "none" THEN leads + 1 ELSE leads
              /\ state' = IF due /\ fault = "none" THEN LeadSaved(state)
                          ELSE IF due /\ fault = "lead" THEN LeadFailed(state)
                          ELSE state
              /\ run' = [run EXCEPT
                           !.completeness = progress.data_completeness,
                           !.lead_due = due /\ fault # "log",
                           !.lead_saved = due /\ fault = "none",
                           !.faults = @ \cup
                               (CASE fault = "none" -> {}
                                  [] fault = "log" -> {"save_log_final"}
                                  [] fault = "lead" -> {"save_lead"})]
    /\ pc' = "respond"
    /\ UNCHANGED <<resp, fnIn, fnOut>>

-----------------------------------------------------------------------------
(* handle_builderbot_message after process_message                         *)

\* [msg for msg in result_state["messages"] if msg["role"] == "assistant"]
AgentMessages(st) == SelectSeq(st.messages, LAMBDA m : m.role = "assistant")

Respond ==
    /\ pc = "respond"
    /\ LET agent_messages == AgentMessages(state)
       IN  resp' = IF agent_messages = <<>>
                   THEN AgentResponse("error", Text("no_response", ""),
                                      state.current_step, state.intent_confirmed)
                   ELSE AgentResponse("success",
                                      agent_messages[Len(agent_messages)].content,
                                      state.current_step, state.intent_confirmed)
    /\ run' = [run EXCEPT
                  !.finished = TRUE,
                  !.offered = @ \/ state.current_step = "present_offer"]
    /\ pc' = "idle"
    /\ UNCHANGED <<db, leads, state, fnIn, fnOut>>

-----------------------------------------------------------------------------
(* start_chat (app/api/webhooks.py), for a contact that has no session yet *)

\* the proactive greeting; a failed save of the initial row is swallowed
StartChat ==
    /\ pc = "idle"
    /\ ~db.exists
    /\ \E saved \in BOOLEAN :
          db' = IF saved
                THEN [ exists |-> TRUE, current_step |-> "collect_budget",
                       collected_data |-> EmptyData, intent_confirmed |-> "None" ]
                ELSE db
    /\ resp' = AgentResponse("chat_started", Text("greeting", ""),
                             "collect_budget", "None")
    /\ state' = NoState
    /\ run' = NoRun
    /\ UNCHANGED <<leads, pc, fnIn, fnOut>>

-----------------------------------------------------------------------------

Next ==
    \/ Inbound
    \/ ReceiveNoCampaign
    \/ ReceiveFault
    \/ Receive
    \/ AnalyzeMessage
    \/ GenerateResponse
    \/ ProcessMessageError
    \/ SaveConversation
    \/ Respond
    \/ StartChat

Spec == Init /\ [][Next]_vars

-----------------------------------------------------------------------------
(* Properties of the pipeline.                                             *)

Terminal == {"close_positive", "close_negative", "completed", "error"}

\* the finalize stage of the run has run to its end (with or without a lead)
Finalized == run.finished /\ run.completeness >= 0

\* C1: in every sequence of pipeline runs of the session at most one lead is
\* saved, and a run that starts at close_positive saves none
C1_AtMostOneLead ==
    /\ leads <= 1
    /\ run.start_step = "close_positive" => ~run.lead_saved

\* a run that started with the session at close_positive went through the
\* finalize stage
C1_Witness ==
    /\ Finalized
    /\ run.start_step = "close_positive"
    /\ "save_log_final" \notin run.faults

\* C2: after a pipeline run whose message was classified negative at a
\* non-terminal step, the state's current_step is close_negative
C2_NegativeCloses ==
    (/\ run.finished
     /\ run.classified = "negative"
     /\ run.start_step \notin Terminal)
        => state.current_step = "close_negative"

\* the income of the data is a number within [500, 50000]
C3_IncomeInRange(data) ==
    /\ data.monthly_income.t = "num"
    /\ data.monthly_income.n >= Float(500, 0)
    /\ data.monthly_income.n <= Float(50000, 0)

\* C3: a run that starts at collect_income is never given collect_employment
\* while the income is absent or outside [500, 50000]; with an intent other
\* than negative the generate stage assigns collect_employment when the income
\* is within the range and collect_income when it is not, and that step is the
\* one the run ends with unless the graph raised
C3_IncomeGate ==
    run.start_step = "collect_income" =>
        LET valid == C3_IncomeInRange(state.collected_data)
        IN  /\ state.current_step = "collect_employment" => valid
            /\ (db.exists /\ db.current_step = "collect_employment")
                  => C3_IncomeInRange(db.collected_data)
            /\ run.gen_step # "none" =>
                  /\ run.gen_step = "collect_employment" => valid
                  /\ run.intent # "negative" =>
                        run.gen_step = IF valid THEN "collect_employment"
                                       ELSE "collect_income"
            /\ (run.finished /\ run.gen_step # "none"
                  /\ "save_fallback_message" \notin run.faults)
                  => state.current_step = run.gen_step

\* a run at collect_income with an income within the range ended at
\* collect_employment
C3_Witness ==
    /\ run.finished
    /\ run.start_step = "collect_income"
    /\ run.intent # "negative"
    /\ C3_IncomeInRange(state.collected_data)
    /\ state.current_step = "collect_employment"
    /\ resp.step = "collect_employment"

\* C4: whenever a row is added to the leads table, the state of the finalize
\* stage is at close_positive with intent_confirmed true and at least 75% of
\* the required data
C4_LeadOnlyWhenQualified ==
    [][ leads' # leads =>
          /\ pc = "save"
          /\ state.current_step = "close_positive"
          /\ state.intent_confirmed = "True"
          /\ 100 * Cardinality({k \in {"monthly_income", "employment_type",
                                       "requested_amount"} :
                                   state.collected_data[k] # NoneV}) >= 75 * 3
      ]_vars

\* the finalize stage ran at close_positive with intent_confirmed true and
\* less than 75% of the data, its saves succeeded, and no lead was saved
C4_Witness ==
    /\ Finalized
    /\ run.faults = {}
    /\ state.current_step = "close_positive"
    /\ state.intent_confirmed = "True"
    /\ run.completeness < 75
    /\ ~run.lead_saved
    /\ leads = 0

C5_FallbackKind(step, data) ==
    CASE step \in {"greeting", "collect_income", "present_offer",
                   "close_positive", "close_negative"} -> "rendered"
      [] step = "collect_employment" ->
            IF data.monthly_income # NoneV THEN "rendered" ELSE "template"
      [] step \in {"collect_amount", "awaiting_decision", "handle_objection",
                   "request_clarification"} -> "template"
      [] OTHER -> "no_template"

\* the fallback texts that end without . ! ? and get a period appended
C5_FallbackPeriod(step) ==
    step \in {"collect_amount", "request_clarification", "close_negative"}

C7_TableOnly ==
    (run.finished /\ run.faults = {})
        => state.current_step =
              get_next_step(run.start_step, run.classified, state.collected_data)

\* C8: a run starts from collected_data holding every field the session had
\* persisted, with its value
C8_DataKept ==
    pc = "analyze" =>
        \A k \in DOMAIN run.before :
            run.before[k] # NoneV => state.collected_data[k] = run.before[k]

\* C9: run through the pipeline at collect_income without faults,
\* "gano 300 al mes" leaves the step at collect_income and "gano 2500 al mes"
\* ends at collect_employment with monthly_income 2500
C9_Examples ==
    (run.finished /\ run.faults = {} /\ run.start_step = "collect_income") =>
        /\ run.utterance = "gano 300 al mes"
              => state.current_step = "collect_income"
        /\ run.utterance = "gano 2500 al mes"
              => /\ state.current_step = "collect_employment"
                 /\ state.collected_data.monthly_income = Num(Float(2500, 0))

-----------------------------------------------------------------------------
(* get_conversation_progress applied on its own.                           *)

\* the steps tried: every ConversationStep and a string that is none
ProgressSteps == ConversationStep \cup {"not_eligible"}

\* a field is absent, valid or invalid
IncomeValues == {NoneV, Num(Float(300, 0)), Num(Float(2500, 0))}
EmploymentValues == {NoneV, Str("employee"), Str("astronaut")}
AmountValues == {NoneV, Num(0), Num(Float(10000, 0))}

InitProgress ==
    /\ db = NoRow
    /\ leads = 0
    /\ pc = "idle"
    /\ state = NoState
    /\ resp = NoResp
    /\ run = NoRun
    /\ fnOut = NoFn
    /\ \E step \in ProgressSteps, income \in IncomeValues,
          employment \in EmploymentValues, amount \in AmountValues :
          fnIn = [ f |-> "get_conversation_progress",
                   current_step |-> step,
                   collected_data |->
                       [EmptyData EXCEPT !.monthly_income = income,
                                         !.employment_type = employment,
                                         !.requested_amount = amount] ]

ApplyProgress ==
    /\ fnIn.f = "get_conversation_progress"
    /\ fnOut = NoFn
    /\ fnOut' = [ f |-> "get_conversation_progress",
                  result |-> get_conversation_progress(fnIn.current_step,
                                                       fnIn.collected_data) ]
    /\ UNCHANGED <<db, leads, pc, state, resp, run, fnIn>>

NextProgress == ApplyProgress

SpecProgress == InitProgress /\ [][NextProgress]_vars

\* the required fields that are not None
C10_Present(data) ==
    Cardinality({k \in {"monthly_income", "employment_type", "requested_amount"} :
                    data[k] # NoneV})

\* the three required fields are present and valid
C10_AllValid(data) ==
    /\ C3_IncomeInRange(data)
    /\ data.employment_type.t = "str"
    /\ data.employment_type.s \in {"employee", "business_owner", "freelancer",
                                   "retired", "student", "unemployed"}
    /\ data.requested_amount.t = "num"
    /\ data.requested_amount.n > 0

\* C10 as stated: data_completeness is 100 only when the three fields are
\* present and valid, and 67, 33 and 0 for two, one and zero fields present
C10_Rounded ==
    (fnOut.f = "get_conversation_progress"
       /\ fnIn.current_step \in ConversationStep) =>
        LET n == C10_Present(fnIn.collected_data)
            c == fnOut.result.data_completeness
        IN  /\ c = 100 => C10_AllValid(fnIn.collected_data)
            /\ n = 2 => c = 67
            /\ n = 1 => c = 33
            /\ n = 0 => c = 0

\* C10 (amended): data_completeness is 100 exactly when the three fields are
\* not None, valid or not, and 66, 33 and 0 for two, one and zero fields
\* present; it is 0 for a step that is no ConversationStep
C10_Truncated ==
    fnOut.f = "get_conversation_progress" =>
        LET n == C10_Present(fnIn.collected_data)
            c == fnOut.result.data_completeness
        IN  IF fnIn.current_step \notin ConversationStep THEN c = 0
            ELSE /\ c = 100 <=> n = 3
                 /\ n = 2 => c = 66
                 /\ n = 1 => c = 33
                 /\ n = 0 => c = 0

\* the function was applied to data with exactly two fields present
C10_Witness ==
    /\ fnOut.f = "get_conversation_progress"
    /\ fnIn.current_step \in ConversationStep
    /\ C10_Present(fnIn.collected_data) = 2
    /\ fnOut.result.data_completeness = 66

-----------------------------------------------------------------------------
(* Further properties of the pipeline.                                     *)

\* C11: after a pipeline run intent_confirmed is true exactly when
\* detected_intent is positive, false exactly when it is negative, and None
\* for every other intent
C11_TriState ==
    (run.finished /\ run.gen_step # "none") =>
        state.intent_confirmed =
            CASE state.detected_intent = "positive" -> "True"
              [] state.detected_intent = "negative" -> "False"
              [] OTHER -> "None"

\* the write failures of the message log
MessageLogFaults ==
    {"save_user_message", "save_agent_message", "save_fallback_message"}

\* C12: a run in which only writes of the message log failed ends with the
\* detected intent, the step and the response text of the run in which they
\* succeed
C12_LogFailureIgnored ==
    (/\ run.finished
     /\ run.faults # {}
     /\ run.faults \subseteq MessageLogFaults) =>
        /\ state.detected_intent = run.classified
        /\ state.current_step =
              NextStep(run.start_step, run.classified,
                       get_next_step(run.start_step, run.classified,
                                     state.collected_data))
        /\ resp.response = run.generated
        /\ resp.response.kind \notin {"technical", "problem"}

\* C14: when the save_conversation_log of the finalize stage fails the turn
\* still ends with its response, and the returned state carries a flag of the
\* failure
C14_SaveFailureFlagged ==
    (run.finished /\ "save_log_final" \in run.faults) =>
        /\ resp.status = "success"
        /\ resp.response.kind \notin {"none", "empty"}
        /\ \/ state.save_error # "None"
           \/ state.lead_generated = "False"

-----------------------------------------------------------------------------
(* save_conversation applied on its own to the states a generate stage     *)
(* can hand over.                                                          *)

\* a required field is absent or holds a valid value
FinalizeData ==
    { [EmptyData EXCEPT !.monthly_income = income,
                        !.employment_type = employment,
                        !.requested_amount = amount] :
        income \in {NoneV, Num(Float(2500, 0))},
        employment \in {NoneV, Str("employee")},
        amount \in {NoneV, Num(Float(10000, 0))} }

InitFinalize ==
    /\ db = NoRow
    /\ leads = 0
    /\ pc = "save"
    /\ resp = NoResp
    /\ run = NoRun
    /\ fnOut = NoFn
    /\ \E step \in ConversationStep, confirmed \in {"True", "False", "None"},
          data \in FinalizeData :
          /\ state = [ NoState EXCEPT
                         !.current_step = step,
                         !.intent_confirmed = confirmed,
                         !.collected_data = data,
                         !.messages = << Message("user", Text("user", "si")),
                                         Message("assistant", Text("llm", step)) >> ]
          /\ fnIn = [f |-> "save_conversation", state |-> state]

NextFinalize ==
    \/ SaveConversation
    \/ Respond

SpecFinalize == InitFinalize /\ [][NextFinalize]_vars

\* C13: when save_lead raises in the finalize stage the pipeline goes on: the
\* returned state has lead_generated false and no lead_id, no lead exists,
\* the conversation row is saved, and the step and the response of the turn
\* are the ones handed to the stage
C13_LeadFailureVisible ==
    "save_lead" \in run.faults =>
        /\ state.lead_generated = "False"
        /\ state.lead_id = "None"
        /\ leads = 0
        /\ pc \in {"respond", "idle"}
        /\ state.current_step = fnIn.state.current_step
        /\ state.messages = fnIn.state.messages
        /\ db.exists /\ db.current_step = fnIn.state.current_step
        /\ run.finished =>
              /\ ~resp.raised
              /\ resp.status = "success"
              /\ resp.step = fnIn.state.current_step
              /\ resp.response = fnIn.state.messages[2].content

\* save_lead raised and the turn ended with its response
C13_Witness ==
    /\ run.finished
    /\ "save_lead" \in run.faults
    /\ resp.status = "success"
    /\ state.lead_generated = "False"

-----------------------------------------------------------------------------
(* IntentAnalyzer.analyze applied on its own.                              *)

\* the utterances classified: those of the pipeline, one that matches the
\* info-request and the objection lexicon, one with an employment word and a
\* digit
ClassifierUtterances == Utterances \cup {"detalles, pero caro", "empleado 5"}

InitClassify ==
    /\ db = NoRow
    /\ leads = 0
    /\ pc = "idle"
    /\ state = NoState
    /\ resp = NoResp
    /\ run = NoRun
    /\ fnOut = NoFn
    /\ \E u \in ClassifierUtterances, step \in ConversationStep :
          fnIn = [f |-> "analyze", message |-> u, current_step |-> step]

ApplyAnalyze ==
    /\ fnIn.f = "analyze"
    /\ fnOut = NoFn
    /\ fnOut' = [ f |-> "analyze",
                  intent |-> analyze(Chars(fnIn.message), fnIn.current_step) ]
    /\ UNCHANGED <<db, leads, pc, state, resp, run, fnIn>>

NextClassify == ApplyAnalyze

SpecClassify == InitClassify /\ [][NextClassify]_vars

\* the case-normalized utterance contains a word of the lexicon
C19_Matches(lexicon, u) == AnyIn(lexicon, Strip(Lower(Chars(u))))

\* the utterance contains a digit
C19_HasDigit(u) == \E i \in 1..Len(Chars(u)) : Chars(u)[i] \in Digits

\* C19: the classifier returns the category of the first rule that matches,
\* in the order positive, negative, info request, objection, digit at
\* collect_income or collect_amount (neutral), employment (neutral), else
\* unclear
C19_FirstMatch ==
    fnOut.f = "analyze" =>
        LET u == fnIn.message
            positive == C19_Matches(POSITIVE_KEYWORDS, u)
            negative == C19_Matches(NEGATIVE_KEYWORDS, u)
            info == C19_Matches(INFO_REQUEST_KEYWORDS, u)
            objection == C19_Matches(OBJECTION_KEYWORDS, u)
            lexicon == positive \/ negative \/ info \/ objection
            data == \/ /\ fnIn.current_step \in {"collect_income", "collect_amount"}
                       /\ C19_HasDigit(u)
                    \/ C19_Matches(EMPLOYMENT_KEYWORDS, u)
        IN  /\ fnOut.intent = "positive" <=> positive
            /\ fnOut.intent = "negative" <=> (~positive /\ negative)
            /\ fnOut.intent = "request_info" <=> (~positive /\ ~negative /\ info)
            /\ fnOut.intent = "objection"
                  <=> (~positive /\ ~negative /\ ~info /\ objection)
            /\ fnOut.intent = "neutral" <=> (~lexicon /\ data)
            /\ fnOut.intent = "unclear" <=> (~lexicon /\ ~data)
            /\ u = "no quiero" => fnOut.intent = "positive"
            /\ u = "2500" => (fnOut.intent = "neutral"
                                <=> fnIn.current_step \in {"collect_income",
                                                           "collect_amount"})

\* an utterance that matches the positive and the negative lexicon was
\* classified
C19_Witness ==
    /\ fnOut.f = "analyze"
    /\ C19_Matches(POSITIVE_KEYWORDS, fnIn.message)
    /\ C19_Matches(NEGATIVE_KEYWORDS, fnIn.message)
    /\ fnOut.intent = "positive"

-----------------------------------------------------------------------------
(* DataExtractor.extract_income and extract_amount applied on their own,   *)
(* and through the extraction of analyze_message.                          *)

\* the utterances of the pipeline and ranges in either order, a marker with
\* one number, two numbers without marker, an upper-case marker, a number
\* with one decimal
ExtractorUtterances ==
    Utterances \cup { "entre 3000 y 2000", "entre 1000", "2000 3000",
                      "ENTRE 2000 Y 3000", "entre 2000.5 y 3000" }

\* the value the field holds before the message: none, or an earlier one
PriorValues == {NoneV, Num(Float(1000, 0))}

\* the results of one application
Extracted(u, prior) ==
    [ income |-> extract_income(Chars(u)),
      amount |-> extract_amount(Chars(u)),
      data_income |->
          ExtractData([EmptyData EXCEPT !.monthly_income = prior],
                      Chars(u), "collect_income").monthly_income,
      data_amount |->
          ExtractData([EmptyData EXCEPT !.requested_amount = prior],
                      Chars(u), "collect_amount").requested_amount ]

InitExtract ==
    /\ db = NoRow
    /\ leads = 0
    /\ pc = "idle"
    /\ state = NoState
    /\ resp = NoResp
    /\ run = NoRun
    /\ fnOut = NoFn
    /\ \E u \in ExtractorUtterances, prior \in PriorValues :
          fnIn = [f |-> "extract", message |-> u, prior |-> prior]

ApplyExtract ==
    /\ fnIn.f = "extract"
    /\ fnOut = NoFn
    /\ fnOut' = [ f |-> "extract", times |-> 1,
                  first |-> Extracted(fnIn.message, fnIn.prior),
                  second |-> Extracted(fnIn.message, fnIn.prior) ]
    /\ UNCHANGED <<db, leads, pc, state, resp, run, fnIn>>

\* the extractors run a second time on the same utterance
ApplyExtractAgain ==
    /\ fnOut.f = "extract"
    /\ fnOut.times = 1
    /\ fnOut' = [fnOut EXCEPT !.times = 2,
                              !.second = Extracted(fnIn.message, fnIn.prior)]
    /\ UNCHANGED <<db, leads, pc, state, resp, run, fnIn>>

NextExtract ==
    \/ ApplyExtract
    \/ ApplyExtractAgain

SpecExtract == InitExtract /\ [][NextExtract]_vars

\* the numbers of each utterance as the pattern of the extractors finds them:
\* runs of digits with an optional fraction of two digits, commas removed
C20_Numbers(u) ==
    CASE u \in {"gano 300 al mes", "300"} -> <<Float(300, 0)>>
      [] u \in {"gano 2500 al mes", "2500"} -> <<Float(2500, 0)>>
      [] u = "60000" -> <<Float(60000, 0)>>
      [] u = "200000" -> <<Float(200000, 0)>>
      [] u = "1,500.50" -> <<Float(1500, 50)>>
      [] u = "entre 1000" -> <<Float(1000, 0)>>
      [] u \in {"entre 2000 y 3000", "2000 3000", "ENTRE 2000 Y 3000"} ->
            <<Float(2000, 0), Float(3000, 0)>>
      [] u = "entre 3000 y 2000" -> <<Float(3000, 0), Float(2000, 0)>>
      [] u = "entre 2000.5 y 3000" -> <<Float(2000, 0), Float(5, 0), Float(3000, 0)>>
      [] OTHER -> <<>>

\* the utterances that hold the range marker
C20_Range(u) ==
    u \in { "entre 2000 y 3000", "entre 3000 y 2000", "entre 1000",
            "ENTRE 2000 Y 3000", "entre 2000.5 y 3000" }

\* C20: with the range marker and two numbers extract_income gives the
\* average of the first two numbers and extract_amount their maximum; else
\* both give the first number; without a number they give None and the
\* field keeps the value it had; a second application gives the same values
C20_RangeRule ==
    fnOut.f = "extract" =>
        LET u == fnIn.message
            numbers == C20_Numbers(u)
            r == fnOut.first
        IN  /\ numbers = <<>> =>
                  /\ r.income = NoneV /\ r.amount = NoneV
                  /\ r.data_income = fnIn.prior
                  /\ r.data_amount = fnIn.prior
            /\ (numbers # <<>> /\ C20_Range(u) /\ Len(numbers) >= 2) =>
                  /\ r.income = Num((numbers[1] + numbers[2]) \div 2)
                  /\ r.amount = Num(IF numbers[1] >= numbers[2]
                                    THEN numbers[1] ELSE numbers[2])
            /\ (numbers # <<>> /\ ~(C20_Range(u) /\ Len(numbers) >= 2)) =>
                  /\ r.income = Num(numbers[1])
                  /\ r.amount = Num(numbers[1])
            /\ u = "entre 2000 y 3000" =>
                  /\ r.income = Num(Float(2500, 0))
                  /\ r.amount = Num(Float(3000, 0))
            /\ fnOut.second = fnOut.first

\* the range "entre 2000 y 3000" was extracted twice
C20_Witness ==
    /\ fnOut.f = "extract"
    /\ fnOut.times = 2
    /\ fnIn.message = "entre 2000 y 3000"
    /\ fnOut.second.income = Num(Float(2500, 0))
    /\ fnOut.second.amount = Num(Float(3000, 0))

-----------------------------------------------------------------------------
(* Several pipeline runs against one database.  get_agent builds a new      *)
(* ConversationAgent for every request, so runs share nothing but the       *)
(* tables.  Every await of a run is one step, and the steps of the runs     *)
(* interleave freely.  Here db maps a session_id to its conversation_logs   *)
(* row, leads to its number of leads, fnOut to its number of                *)
(* conversation_messages rows; pc, state, resp and run map a run to what    *)
(* the single-run specification keeps for its one run; fnIn holds the       *)
(* clock and the history the properties refer to.                           *)

Runs == {1, 2}

\* phone numbers of the contacts, already without '+', '-' and ' '
Contacts == {"593111", "593222"}

\* datetime.now() to the second, as strftime('%Y%m%d_%H%M%S') prints it
MaxClock == 1

NoSessionId == [kind |-> "none", phone |-> "", ts |-> 0]

\* f"session_{clean_phone}_{timestamp}"
SessionId(phone, ts) == [kind |-> "session", phone |-> phone, ts |-> ts]

\* f"session_temp_{timestamp}"
TempSessionId(ts) == [kind |-> "temp", phone |-> "", ts |-> ts]

SessionIds ==
    { SessionId(p, ts) : p \in Contacts, ts \in 0 .. MaxClock } \cup
    { TempSessionId(ts) : ts \in 0 .. MaxClock }

\* no conversation_logs row for a session_id
NoLog == [phone |-> "", row |-> NoRow]

\* a save_conversation_log whose update keeps the fields the row has and
\* the state leaves empty
save_conversation_log_Merge(logs, session_id, phone, st) ==
    [logs EXCEPT ![session_id] =
        [phone |-> IF @.row.exists THEN @.phone ELSE phone,
         row |-> [Row(st) EXCEPT
                    !.collected_data =
                        [k \in DOMAIN EmptyData |->
                            IF st.collected_data[k] = NoneV
                            THEN logs[session_id].row.collected_data[k]
                            ELSE st.collected_data[k]]]]]

\* INSERT ... ON CONFLICT (session_id) DO UPDATE: a new row takes the phone
\* of the state, an existing row keeps its phone_number; current_step,
\* intent_confirmed and collected_data are those of the state
save_conversation_log(logs, session_id, phone, st) ==
    [logs EXCEPT ![session_id] =
        [phone |-> IF @.row.exists THEN @.phone ELSE phone, row |-> Row(st)]]

\* SELECT session_id FROM conversation_logs WHERE phone_number = $1: the
\* rows execute_single may return the first of
get_session_id(logs, phone) ==
    { id \in SessionIds : logs[id].row.exists /\ logs[id].phone = phone }

\* a save_message that adds a row to the log of every session
save_message_Broadcast(messages, session_id) ==
    [id \in SessionIds |-> messages[id] + 1]

\* INSERT INTO conversation_messages (session_id, ...)
save_message(messages, session_id) ==
    [messages EXCEPT ![session_id] = @ + 1]

\* INSERT INTO leads (..., session_id, ...)
save_lead(table, session_id) ==
    [table EXCEPT ![session_id] = @ + 1]

\* what is kept of a run besides its ConversationState
NoSessionRun ==
    [ phone |-> "", utterance |-> "", session_id |-> NoSessionId,
      start_step |-> "none", faults |-> {}, final_save |-> "none",
      final |-> NoRow ]

\* rows a session is left with by earlier turns: after "si" at greeting,
\* and after an amount at collect_amount
PriorRows ==
    { [ exists |-> TRUE, current_step |-> "collect_income",
        collected_data |-> EmptyData, intent_confirmed |-> "True" ],
      [ exists |-> TRUE, current_step |-> "present_offer",
        collected_data |-> [EmptyData EXCEPT
                              !.requested_amount = Num(Float(2500, 0))],
        intent_confirmed |-> "None" ] }

SessionUtterances == {"si", "2500"}

InitSessions ==
    /\ \E prior \in [Contacts -> PriorRows \cup {NoRow}] :
          /\ db = [id \in SessionIds |->
                     IF id.kind = "session" /\ id.ts = 0 /\ prior[id.phone].exists
                     THEN [phone |-> id.phone, row |-> prior[id.phone]]
                     ELSE NoLog]
          /\ fnIn = [ f |-> "sessions", clock |-> 0,
                      first |-> [p \in Contacts |->
                                   IF prior[p].exists THEN SessionId(p, 0)
                                   ELSE NoSessionId],
                      last_final |-> [id \in SessionIds |-> 0] ]
    /\ leads = [id \in SessionIds |-> 0]
    /\ fnOut = [id \in SessionIds |-> 0]
    /\ pc = [r \in Runs |-> "idle"]
    /\ state = [r \in Runs |-> NoState]
    /\ resp = [r \in Runs |-> NoResp]
    /\ run = [r \in Runs |-> NoSessionRun]

\* a second of the clock passes
Tick ==
    /\ fnIn.clock < MaxClock
    /\ fnIn' = [fnIn EXCEPT !.clock = @ + 1]
    /\ UNCHANGED <<db, leads, pc, state, resp, run, fnOut>>

\* POST /builderbot/message from a contact with a campaign; the first run
\* serves the first contact, the second run either contact
SessionInbound(r) ==
    /\ pc[r] = "idle"
    /\ \E phone \in IF r = 1 THEN {"593111"} ELSE Contacts,
          u \in SessionUtterances :
          run' = [run EXCEPT ![r] = [NoSessionRun EXCEPT !.phone = phone,
                                                         !.utterance = u]]
    /\ pc' = [pc EXCEPT ![r] = "received"]
    /\ UNCHANGED <<db, leads, state, resp, fnIn, fnOut>>

\* _get_or_create_session_id: the session_id of a row with the phone, a new
\* id when there is none, the temporary id when the lookup raises
GetOrCreateSessionId(r) ==
    /\ pc[r] = "received"
    /\ LET found == get_session_id(db, run[r].phone)
           phone == run[r].phone
       IN  \E session_id \in
                (IF found = {} THEN {SessionId(phone, fnIn.clock)} ELSE found)
                \cup {TempSessionId(fnIn.clock)} :
              /\ run' = [run EXCEPT
                           ![r].session_id = session_id,
                           ![r].faults = IF session_id.kind = "temp"
                                         THEN {"get_session_id"} ELSE {}]
              /\ fnIn' = [fnIn EXCEPT
                            !.first[phone] = IF @ = NoSessionId THEN session_id
                                             ELSE @]
    /\ pc' = [pc EXCEPT ![r] = "session"]
    /\ UNCHANGED <<db, leads, state, resp, fnOut>>

\* create_initial_state after the session_id: get_current_step,
\* _get_previous_collected_data, _build_conversation_state
LoadState(r) ==
    /\ pc[r] = "session"
    /\ LET row == db[run[r].session_id].row
           st == _build_conversation_state(run[r].utterance, get_current_step(row),
                                           _get_previous_collected_data(row))
       IN  /\ state' = [state EXCEPT ![r] = st]
           /\ run' = [run EXCEPT ![r].start_step = st.current_step]
    /\ pc' = [pc EXCEPT ![r] = "loaded"]
    /\ UNCHANGED <<db, leads, resp, fnIn, fnOut>>

\* _save_initial_state: a failure is logged and the run goes on
SaveInitialState(r) ==
    /\ pc[r] = "loaded"
    /\ \E saved \in BOOLEAN :
          /\ db' = IF saved
                   THEN save_conversation_log(db, run[r].session_id,
                                              run[r].phone, state[r])
                   ELSE db
          /\ run' = [run EXCEPT ![r].faults =
                        IF saved THEN @ ELSE @ \cup {"save_initial"}]
    /\ pc' = [pc EXCEPT ![r] = "analyze"]
    /\ UNCHANGED <<leads, state, resp, fnIn, fnOut>>

\* analyze_message with its writes succeeding: save_conversation_log, the
\* analysis, save_message
SessionAnalyze(r) ==
    /\ pc[r] = "analyze"
    /\ db' = save_conversation_log(db, run[r].session_id, run[r].phone, state[r])
    /\ fnOut' = save_message(fnOut, run[r].session_id)
    /\ state' = [state EXCEPT ![r] = AnalyzedState(@, "none")]
    /\ pc' = [pc EXCEPT ![r] = "generate"]
    /\ UNCHANGED <<leads, resp, run, fnIn>>

\* generate_response with the model answering and save_message succeeding
SessionGenerate(r) ==
    /\ pc[r] = "generate"
    /\ state' = [state EXCEPT ![r] = GeneratedState(@, "llm", "none")]
    /\ fnOut' = save_message(fnOut, run[r].session_id)
    /\ pc' = [pc EXCEPT ![r] = "save"]
    /\ UNCHANGED <<db, leads, resp, run, fnIn>>

\* save_conversation: save_conversation_log, then save_lead when the lead
\* condition holds
SessionSave(r) ==
    /\ pc[r] = "save"
    /\ LET st == state[r]
           session_id == run[r].session_id
           progress == get_conversation_progress(st.current_step,
                                                 st.collected_data)
           due == LeadCondition(st, progress)
       IN  \E fault \in {"none", "log"} \cup (IF due THEN {"lead"} ELSE {}) :
              /\ db' = IF fault = "log" THEN db
                       ELSE save_conversation_log(db, session_id, run[r].phone, st)
              /\ leads' = IF due /\ fault = "none" THEN save_lead(leads, session_id)
                          ELSE leads
              /\ state' = [state EXCEPT ![r] =
                             IF due /\ fault = "none" THEN LeadSaved(st)
                             ELSE IF due /\ fault = "lead" THEN LeadFailed(st)
                             ELSE st]
              /\ run' = [run EXCEPT
                           ![r].final_save = IF fault = "log" THEN "failed"
                                             ELSE "saved",
                           ![r].final = IF fault = "log" THEN NoRow
                                        ELSE [ exists |-> TRUE,
                                               current_step |-> st.current_step,
                                               collected_data |-> st.collected_data,
                                               intent_confirmed |-> st.intent_confirmed ],
                           ![r].faults = @ \cup
                               (CASE fault = "none" -> {}
                                  [] fault = "log" -> {"save_log_final"}
                                  [] fault = "lead" -> {"save_lead"})]
              /\ fnIn' = IF fault = "log" THEN fnIn
                         ELSE [fnIn EXCEPT !.last_final[session_id] = r]
    /\ pc' = [pc EXCEPT ![r] = "respond"]
    /\ UNCHANGED <<resp, fnOut>>

\* handle_builderbot_message after process_message
SessionRespond(r) ==
    /\ pc[r] = "respond"
    /\ LET agent_messages == AgentMessages(state[r])
       IN  resp' = [resp EXCEPT ![r] =
                      AgentResponse("success",
                                    agent_messages[Len(agent_messages)].content,
                                    state[r].current_step,
                                    state[r].intent_confirmed)]
    /\ pc' = [pc EXCEPT ![r] = "done"]
    /\ UNCHANGED <<db, leads, state, run, fnIn, fnOut>>

NextSessions ==
    \/ Tick
    \/ \E r \in Runs : SessionInbound(r)
    \/ \E r \in Runs : GetOrCreateSessionId(r)
    \/ \E r \in Runs : LoadState(r)
    \/ \E r \in Runs : SaveInitialState(r)
    \/ \E r \in Runs : SessionAnalyze(r)
    \/ \E r \in Runs : SessionGenerate(r)
    \/ \E r \in Runs : SessionSave(r)
    \/ \E r \in Runs : SessionRespond(r)

SpecSessions == InitSessions /\ [][NextSessions]_vars

-----------------------------------------------------------------------------
(* Two save_conversation stages of one session, each applied to a state a   *)
(* run hands to it.  The lead branch is never entered by a whole run,       *)
(* every run starting from collected_data {}; the stage is applied here to  *)
(* states with every combination of the required fields.                    *)

InitEmit ==
    /\ db = [id \in SessionIds |->
               IF id = SessionId("593111", 0)
               THEN [phone |-> "593111",
                     row |-> CHOOSE x \in PriorRows : x.current_step = "present_offer"]
               ELSE NoLog]
    /\ leads = [id \in SessionIds |-> 0]
    /\ fnOut = [id \in SessionIds |-> 2]
    /\ fnIn = [ f |-> "sessions", clock |-> 0,
                first |-> [p \in Contacts |-> IF p = "593111" THEN SessionId(p, 0)
                                              ELSE NoSessionId],
                last_final |-> [id \in SessionIds |-> 0] ]
    /\ pc = [r \in Runs |-> "save"]
    /\ resp = [r \in Runs |-> NoResp]
    /\ run = [r \in Runs |->
                [NoSessionRun EXCEPT !.phone = "593111", !.utterance = "si",
                                     !.session_id = SessionId("593111", 0),
                                     !.start_step = "present_offer"]]
    /\ state \in [Runs ->
          { [ NoState EXCEPT
                !.current_step = step,
                !.intent_confirmed = confirmed,
                !.detected_intent = IF confirmed = "True" THEN "positive"
                                    ELSE "neutral",
                !.collected_data = data,
                !.messages = << Message("user", Text("user", "si")),
                                Message("assistant", Text("llm", step)) >> ] :
              step \in {"close_positive", "request_clarification"},
              confirmed \in {"True", "None"},
              data \in FinalizeData }]

NextEmit ==
    \/ \E r \in Runs : SessionSave(r)
    \/ \E r \in Runs : SessionRespond(r)

SpecEmit == InitEmit /\ [][NextEmit]_vars

C15_NoLeadFromRuns ==
    \A id \in SessionIds : leads[id] = 0

-----------------------------------------------------------------------------
(* Interleaved runs of one session                                         *)

\* two runs of one session that both loaded the same prior state and have
\* both answered
Interleaved(id) ==
    /\ \A r \in Runs : pc[r] = "done" /\ run[r].session_id = id
    /\ run[1].start_step = run[2].start_step

\* C16: when two runs of one session interleave, each having loaded the
\* same prior state, and both have saved and answered, the session's row
\* holds the current_step and the collected_data of the run whose final
\* save came last, whole and unmixed
C16_LastWriteWins ==
    \A id \in SessionIds :
        (Interleaved(id) /\ \A r \in Runs : run[r].final_save = "saved") =>
            LET last == fnIn.last_final[id]
            IN  /\ last \in Runs
                /\ db[id].row.current_step = run[last].final.current_step
                /\ db[id].row.collected_data = run[last].final.collected_data
                /\ run[last].final.current_step = state[last].current_step
                /\ run[last].final.collected_data = state[last].collected_data

\* one run took the income and moved on, the other stayed at its step with
\* nothing collected and saved last: the row holds nothing of the first
C16_Witness ==
    \E id \in SessionIds :
        /\ Interleaved(id)
        /\ \A r \in Runs : run[r].final_save = "saved"
        /\ run[1].start_step = "collect_income"
        /\ state[1].current_step = "collect_income"
        /\ state[1].collected_data = EmptyData
        /\ state[2].current_step = "collect_employment"
        /\ state[2].collected_data.monthly_income = Num(Float(2500, 0))
        /\ fnIn.last_final[id] = 1
        /\ db[id].row.collected_data = EmptyData

-----------------------------------------------------------------------------
(* Runs of different sessions                                              *)

\* C17: a step of a run changes the conversation row (step, collected_data,
\* intent_confirmed), the message log and the leads of no session_id other
\* than the run's own
C17_OtherSessionsUntouched ==
    [][\A r \in Runs :
          pc'[r] # pc[r] =>
             \A id \in SessionIds \ {run[r].session_id} :
                /\ db'[id] = db[id]
                /\ leads'[id] = leads[id]
                /\ fnOut'[id] = fnOut[id]]_vars

\* two runs of two sessions have both saved and answered, and each session
\* holds what its own run wrote: a row and two messages
C17_Witness ==
    /\ \A r \in Runs : pc[r] = "done" /\ run[r].final_save = "saved"
    /\ run[1].session_id # run[2].session_id
    /\ run[1].final # run[2].final
    /\ \A r \in Runs :
          /\ db[run[r].session_id].row = run[r].final
          /\ fnOut[run[r].session_id] = 2

-----------------------------------------------------------------------------
(* The session_id of a contact                                             *)

\* the run has its session_id
Resolved(r) == pc[r] \notin {"idle", "received"}

\* C18: two different contacts never have the same session_id, and every
\* message of a contact gets the session_id the contact got first, also
\* when the session lookup or the initial save fails
C18_UniqueAndStable ==
    /\ \A r1, r2 \in Runs :
          (Resolved(r1) /\ Resolved(r2) /\ run[r1].phone # run[r2].phone) =>
              run[r1].session_id # run[r2].session_id
    /\ \A r \in Runs :
          Resolved(r) => run[r].session_id = fnIn.first[run[r].phone]

\* two contacts whose lookups failed in the same second hold one session_id
C18_SharedTemporaryId ==
    \E r1, r2 \in Runs :
        /\ Resolved(r1) /\ Resolved(r2)
        /\ run[r1].phone # run[r2].phone
        /\ run[r1].session_id = run[r2].session_id

\* a contact with a session whose lookup failed got another session_id
C18_ChangedId ==
    \E r \in Runs :
        /\ Resolved(r)
        /\ run[r].faults = {"get_session_id"}
        /\ fnIn.first[run[r].phone] = SessionId(run[r].phone, 0)
        /\ run[r].session_id # fnIn.first[run[r].phone]

\* without a failing lookup or save: the second message of a new contact,
\* arriving before the first one saved anything, got a second session_id
C18_ChangedIdNoFault ==
    /\ \A r \in Runs : Resolved(r) /\ run[r].faults = {}
    /\ run[1].phone = run[2].phone
    /\ run[1].session_id # run[2].session_id

-----------------------------------------------------------------------------
(* The transition function and the step validation on their own: every      *)
(* step and intent, an unknown value of each, and collected_data with       *)
(* missing, invalid and valid fields.                                       *)

\* PromptBuilder.get_validation_rules: the steps that have rules
validation_steps == {"collect_income", "collect_employment", "collect_amount"}

\* PromptBuilder.validate_collected_data: valid, the message and the missing
\* fields; a step without rules is valid with no message
validate_collected_data(step, collected_data) ==
    LET field == CASE step = "collect_income" -> "monthly_income"
                   [] step = "collect_employment" -> "employment_type"
                   [] OTHER -> "requested_amount"
        value == collected_data[field]
        min_value == IF step = "collect_income" THEN Float(500, 0) ELSE Float(100, 0)
        max_value == IF step = "collect_income" THEN Float(50000, 0)
                     ELSE Float(100000, 0)
        Result(valid, message, missing) ==
            [valid |-> valid, message |-> message, missing_fields |-> missing]
    IN  IF step \notin validation_steps THEN Result(TRUE, "None", {})
        ELSE IF value = NoneV THEN Result(FALSE, "error_message", {field})
        ELSE IF step = "collect_employment"
             THEN IF value.t = "str" /\ value.s \in valid_types
                  THEN Result(TRUE, "valid", {})
                  ELSE Result(FALSE, "not_a_valid_value", {})
        ELSE IF value.t # "num" THEN Result(FALSE, "not_numeric", {})
        ELSE IF value.n < min_value THEN Result(FALSE, "minimum", {})
        ELSE IF value.n > max_value THEN Result(FALSE, "maximum", {})
        ELSE Result(TRUE, "valid", {})

TransitionSteps == ConversationStep \cup {"unknown_step"}

TransitionIntents == IntentType \cup {"unknown_intent"}

TransitionIncomes ==
    {NoneV, Num(Float(300, 0)), Num(Float(2500, 0)), Num(Float(60000, 0))}

TransitionEmployments == {NoneV, Str("employee"), Str("astronaut")}

TransitionAmounts ==
    { NoneV, Num(0), Num(Float(50, 0)), Num(Float(100, 0)), Num(Float(100000, 0)),
      Num(Float(100000, 1)), Num(Float(200000, 0)), Str("mucho") }

InitTransition ==
    /\ db = NoRow
    /\ leads = 0
    /\ pc = "idle"
    /\ state = NoState
    /\ resp = NoResp
    /\ run = NoRun
    /\ fnOut = NoFn
    /\ \E step \in TransitionSteps, intent \in TransitionIntents,
          income \in TransitionIncomes, employment \in TransitionEmployments,
          amount \in TransitionAmounts :
          fnIn = [ f |-> "get_next_step",
                   current_step |-> step,
                   intent |-> intent,
                   collected_data |->
                       [EmptyData EXCEPT !.monthly_income = income,
                                         !.employment_type = employment,
                                         !.requested_amount = amount] ]

\* get_next_step, the step generate_response leaves in current_step, and
\* validate_collected_data of the step, for one input
ApplyTransition ==
    /\ fnIn.f = "get_next_step"
    /\ fnOut = NoFn
    /\ LET table_step == get_next_step(fnIn.current_step, fnIn.intent,
                                       fnIn.collected_data)
       IN  fnOut' = [ f |-> "get_next_step",
                      table_step |-> table_step,
                      next_step |-> NextStep(fnIn.current_step, fnIn.intent,
                                             table_step),
                      validation |-> validate_collected_data(fnIn.current_step,
                                                             fnIn.collected_data) ]
    /\ UNCHANGED <<db, leads, pc, state, resp, run, fnIn>>

NextTransition == ApplyTransition

SpecTransition == InitTransition /\ [][NextTransition]_vars

\* the transition has been computed for the input
Transitioned == fnOut # NoFn

\* C22: from present_offer the next step is awaiting_decision on positive,
\* present_offer on request_info, handle_objection on objection and
\* request_clarification on neutral or unclear, in the table and in the step
\* generate_response leaves
C22_FromPresentOffer ==
    (Transitioned /\ fnIn.current_step = "present_offer"
                  /\ fnIn.intent \in IntentType \ {"negative"}) =>
        LET expected == CASE fnIn.intent = "positive" -> "awaiting_decision"
                          [] fnIn.intent = "request_info" -> "present_offer"
                          [] fnIn.intent = "objection" -> "handle_objection"
                          [] OTHER -> "request_clarification"
        IN  /\ fnOut.table_step = expected
            /\ fnOut.next_step = expected

\* the same of the table alone
C22_TableFromPresentOffer ==
    (Transitioned /\ fnIn.current_step = "present_offer"
                  /\ fnIn.intent \in IntentType \ {"negative"}) =>
        fnOut.table_step =
            CASE fnIn.intent = "positive" -> "awaiting_decision"
              [] fnIn.intent = "request_info" -> "present_offer"
              [] fnIn.intent = "objection" -> "handle_objection"
              [] OTHER -> "request_clarification"

\* C23: from awaiting_decision the next step is close_positive on positive,
\* close_negative on negative and awaiting_decision again on every other
\* intent, whatever the collected data
C23_FromAwaitingDecision ==
    (Transitioned /\ fnIn.current_step = "awaiting_decision"
                  /\ fnIn.intent \in IntentType) =>
        LET expected == CASE fnIn.intent = "positive" -> "close_positive"
                          [] fnIn.intent = "negative" -> "close_negative"
                          [] OTHER -> "awaiting_decision"
        IN  /\ fnOut.table_step = expected
            /\ fnOut.next_step = expected

\* a neutral message at awaiting_decision leaves the step where it is
C23_Witness ==
    /\ Transitioned
    /\ fnIn.current_step = "awaiting_decision"
    /\ fnIn.intent = "neutral"
    /\ fnOut.next_step = "awaiting_decision"

\* C24: from handle_objection the next step is awaiting_decision on
\* positive, present_offer on request_info and close_negative on every other
\* intent, a repeated objection, neutral and unclear included
C24_FromHandleObjection ==
    (Transitioned /\ fnIn.current_step = "handle_objection"
                  /\ fnIn.intent \in IntentType) =>
        LET expected == CASE fnIn.intent = "positive" -> "awaiting_decision"
                          [] fnIn.intent = "request_info" -> "present_offer"
                          [] OTHER -> "close_negative"
        IN  /\ fnOut.table_step = expected
            /\ fnOut.next_step = expected

\* a second objection closes the conversation
C24_Witness ==
    /\ Transitioned
    /\ fnIn.current_step = "handle_objection"
    /\ fnIn.intent = "objection"
    /\ fnOut.next_step = "close_negative"

C26_AmountContract ==
    (Transitioned /\ fnIn.current_step = "collect_amount"
                  /\ fnIn.intent \in IntentType \ {"negative"}) =>
        LET amount == fnIn.collected_data.requested_amount
            in_contract == /\ amount.t = "num"
                           /\ amount.n > 0
                           /\ amount.n <= 100000 * 200
        IN  /\ (fnOut.table_step = "present_offer") <=> in_contract
            /\ fnOut.validation.valid <=> in_contract
            /\ ~fnOut.validation.valid => fnOut.validation.message # "None"

\* C28: get_next_step returns error for an unknown step, for an unknown
\* intent, and for every intent other than negative at close_positive,
\* close_negative, completed, error and every other step without a branch
C28_UnrecognizedIsError ==
    (/\ Transitioned
     /\ \/ fnIn.current_step \notin ConversationStep
        \/ fnIn.intent \notin IntentType
        \/ /\ fnIn.intent # "negative"
           /\ fnIn.current_step \in {"close_positive", "close_negative",
                                     "completed", "error", "collect_budget"})
        => fnOut.table_step = "error"

\* a greeting arriving at a closed conversation
C28_Witness ==
    /\ Transitioned
    /\ fnIn.current_step = "close_positive"
    /\ fnIn.intent = "neutral"
    /\ fnOut.table_step = "error"

-----------------------------------------------------------------------------
(* ProductPromptBuilder.build_offer (app/core/prompts.py)                   *)

Min(a, b) == IF a <= b THEN a ELSE b

\* ProductType; "mortgage" has no entry in PRODUCT_CONFIGS
ProductType == {"credit_card", "credit", "insurance", "savings", "mortgage"}

\* a credit card limit without the ceiling
calculation_Uncapped(product_type, income) ==
    CASE product_type = "credit_card" -> income * 5
      [] product_type = "credit" -> Min(income * 12, Float(100000, 0))
      [] product_type = "insurance" -> (income * 5) \div 100
      [] OTHER -> (income * 15) \div 100

\* PRODUCT_CONFIGS[product_type]["calculation"](income), in units of 1/200
\* (the fractions below one unit that 5% and 15% leave are dropped)
calculation(product_type, income) ==
    CASE product_type = "credit_card" -> Min(income * 5, Float(15000, 0))
      [] product_type = "credit" -> Min(income * 12, Float(100000, 0))
      [] product_type = "insurance" -> (income * 5) \div 100
      [] OTHER -> (income * 15) \div 100

\* _get_card_type
_get_card_type(income) ==
    IF income >= Float(5000, 0) THEN "Tarjeta Platinum"
    ELSE IF income >= Float(2500, 0) THEN "Tarjeta Gold"
    ELSE "Tarjeta Classic"

\* int(x) of a non-negative float in units of 1/200
IntPart(x) == x \div 200

\* build_offer: which sentence, the card, and the amounts it prints
build_offer(product_type, collected_data) ==
    LET monthly_income == collected_data.monthly_income
        Offer(kind, product_name, value, second) ==
            [kind |-> kind, product_name |-> product_name,
             recommended_value |-> value, printed |-> IntPart(value),
             second |-> second]
    IN  IF product_type = "mortgage" THEN Offer("default", "", 0, 0)
        ELSE IF ~Truthy(monthly_income) THEN Offer("need_income", "", 0, 0)
        ELSE LET recommended_value == calculation(product_type, monthly_income.n)
             IN  CASE product_type = "credit_card" ->
                        Offer("credit_card", _get_card_type(monthly_income.n),
                              recommended_value, 0)
                   [] product_type = "credit" ->
                        Offer("credit", "", recommended_value,
                              recommended_value \div (36 * 200))
                   [] product_type = "insurance" ->
                        Offer("insurance", "", recommended_value, 0)
                   [] OTHER ->
                        Offer("savings", "", recommended_value,
                              (recommended_value * 12 * 65) \div (1000 * 200))

OfferIncomes ==
    { NoneV, Num(0), Num(Float(499, 0)), Num(Float(500, 0)), Num(Float(2499, 99)),
      Num(Float(2500, 0)), Num(Float(2500, 50)), Num(Float(3000, 0)),
      Num(Float(3000, 1)), Num(Float(4999, 99)), Num(Float(5000, 0)),
      Num(Float(6000, 0)), Num(Float(50000, 0)), Num(Float(60000, 0)) }

InitOffer ==
    /\ db = NoRow
    /\ leads = 0
    /\ pc = "idle"
    /\ state = NoState
    /\ resp = NoResp
    /\ run = NoRun
    /\ fnOut = NoFn
    /\ \E product_type \in ProductType, income \in OfferIncomes :
          fnIn = [ f |-> "build_offer",
                   product_type |-> product_type,
                   collected_data |-> [EmptyData EXCEPT !.monthly_income = income] ]

ApplyOffer ==
    /\ fnIn.f = "build_offer"
    /\ fnOut = NoFn
    /\ fnOut' = [ f |-> "build_offer",
                  offer |-> build_offer(fnIn.product_type, fnIn.collected_data) ]
    /\ UNCHANGED <<db, leads, pc, state, resp, run, fnIn>>

NextOffer == ApplyOffer

SpecOffer == InitOffer /\ [][NextOffer]_vars

\* C21: the credit card offer for a monthly income has the limit
\* min(income x 5, 15000), printed without its decimals and never above
\* 15000, and names the top card from 5000, the middle card from 2500 and
\* the base card below; 6000 gives 15000 and the top card
C21_CreditCardOffer ==
    (/\ fnOut # NoFn
     /\ fnIn.product_type = "credit_card"
     /\ fnIn.collected_data.monthly_income.t = "num"
     /\ fnIn.collected_data.monthly_income.n > 0) =>
        LET income == fnIn.collected_data.monthly_income.n
            limit == IF income * 5 <= 15000 * 200 THEN income * 5 ELSE 15000 * 200
        IN  /\ fnOut.offer.kind = "credit_card"
            /\ fnOut.offer.recommended_value = limit
            /\ fnOut.offer.printed * 200 <= limit
            /\ limit < (fnOut.offer.printed + 1) * 200
            /\ fnOut.offer.printed <= 15000
            /\ fnOut.offer.product_name =
                  IF income >= 5000 * 200 THEN "Tarjeta Platinum"
                  ELSE IF income >= 2500 * 200 THEN "Tarjeta Gold"
                  ELSE "Tarjeta Classic"
            /\ income = 6000 * 200 =>
                  /\ fnOut.offer.printed = 15000
                  /\ fnOut.offer.product_name = "Tarjeta Platinum"

\* the offer for 6000 has been built
C21_Witness ==
    /\ fnOut # NoFn
    /\ fnIn.product_type = "credit_card"
    /\ fnIn.collected_data.monthly_income = Num(Float(6000, 0))
    /\ fnOut.offer.printed = 15000
    /\ fnOut.offer.product_name = "Tarjeta Platinum"

-----------------------------------------------------------------------------
(* Collection steps, extraction and the negative branch in whole runs       *)

\* the data contract of a collection step: monthly_income in [500, 50000],
\* employment_type one of the six categories, requested_amount in
\* (0, 100000]
C27_Contract(step, data) ==
    CASE step = "collect_income" ->
            /\ data.monthly_income.t = "num"
            /\ data.monthly_income.n >= 500 * 200
            /\ data.monthly_income.n <= 50000 * 200
      [] step = "collect_employment" ->
            /\ data.employment_type.t = "str"
            /\ data.employment_type.s \in
                  {"employee", "business_owner", "freelancer", "retired",
                   "student", "unemployed"}
      [] OTHER ->
            /\ data.requested_amount.t = "num"
            /\ data.requested_amount.n > 0
            /\ data.requested_amount.n <= 100000 * 200

C27_Successor(step) ==
    CASE step = "collect_income" -> "collect_employment"
      [] step = "collect_employment" -> "collect_amount"
      [] OTHER -> "present_offer"

\* C27: a run that starts at collect_income, collect_employment or
\* collect_amount leaves the session's row at that step, at close_negative,
\* or at the successor step with the step's field satisfying its contract,
\* whatever fails
C27_CollectionStepsHold ==
    (run.start_step \in {"collect_income", "collect_employment", "collect_amount"}
        /\ db.exists) =>
        \/ db.current_step \in {run.start_step, "close_negative"}
        \/ /\ db.current_step = C27_Successor(run.start_step)
           /\ C27_Contract(run.start_step, db.collected_data)

\* the same with the amount only required to be above 0
C27_CollectionStepsHoldAboveZero ==
    (run.start_step \in {"collect_income", "collect_employment", "collect_amount"}
        /\ db.exists) =>
        \/ db.current_step \in {run.start_step, "close_negative"}
        \/ /\ db.current_step = C27_Successor(run.start_step)
           /\ \/ C27_Contract(run.start_step, db.collected_data)
              \/ /\ run.start_step = "collect_amount"
                 /\ db.collected_data.requested_amount.t = "num"
                 /\ db.collected_data.requested_amount.n > 0

\* C29: a run writes into monthly_income, employment_type and
\* requested_amount only a valid extraction for the field; the state of a
\* run, which starts with no field, never holds an invalid one
C29_OnlyValidWritten ==
    /\ state.collected_data.monthly_income # NoneV =>
          C27_Contract("collect_income", state.collected_data)
    /\ state.collected_data.employment_type # NoneV =>
          C27_Contract("collect_employment", state.collected_data)
    /\ state.collected_data.requested_amount # NoneV =>
          C27_Contract("collect_amount", state.collected_data)

\* C30: a run whose intent is negative and that did not start at greeting
\* never calls the text-generation backend, answers with the canned closing
\* message and ends at close_negative
C30_NegativeBypassesBackend ==
    (run.finished /\ run.intent = "negative" /\ run.start_step # "greeting") =>
        /\ run.llm = "none"
        /\ resp.response = Text("negative", "")
        /\ state.current_step = "close_negative"
        /\ resp.step = "close_negative"

\* the backend is not called and the canned closing is what is generated,
\* in every such run
C30_BackendNeverCalled ==
    (run.intent = "negative" /\ run.start_step # "greeting") =>
        /\ run.llm = "none"
        /\ run.generated = Text("negative", "")
        /\ run.gen_step = "close_negative"

\* the whole statement in the runs in which no save_message fails
C30_WithoutLogFailure ==
    (run.finished /\ run.intent = "negative" /\ run.start_step # "greeting"
        /\ run.faults \cap {"save_agent_message", "save_fallback_message"} = {}) =>
        /\ run.llm = "none"
        /\ resp.response = Text("negative", "")
        /\ state.current_step = "close_negative"
        /\ resp.step = "close_negative"

-----------------------------------------------------------------------------
(* The steps a session can be at, and what a run leaves behind.            *)

\* the twelve steps of the conversation
C31_TwelveStates == ConversationStep \ {"collect_budget"}

\* C31: the step of the persisted row, of the state in the pipeline and of
\* the answer of process_message or start_chat is one of the twelve steps,
\* and the row of a session that has had no pipeline run yet is at greeting
C31_TwelveStatesOnly ==
    /\ db.current_step \in C31_TwelveStates
    /\ state.current_step \in C31_TwelveStates
    /\ resp.status \in {"success", "chat_started"} =>
          resp.step \in C31_TwelveStates
    /\ resp.status = "chat_started" =>
          /\ resp.step = "greeting"
          /\ db.exists => db.current_step = "greeting"

\* C32: a run that came back from the pipeline has added exactly one
\* assistant message to the state, and that message is the response
C32_OneAssistantMessage ==
    run.finished =>
        /\ Len(AgentMessages(state)) = 1
        /\ resp.response = AgentMessages(state)[1].content

\* C32 for the runs in which no save fails
C32_OneAssistantMessageNoFault ==
    (run.finished /\ run.faults = {}) =>
        /\ Len(AgentMessages(state)) = 1
        /\ resp.response = AgentMessages(state)[1].content

\* C33: when generate_response ended in its except branch the reply is the
\* technical fallback and current_step is the step the run started with
C33_StepKeptOnError ==
    (pc = "save" /\ "save_agent_message" \in run.faults) =>
        /\ state.messages[Len(state.messages)].content = Text("technical", "")
        /\ state.current_step = run.start_step

\* C35: a run that starts at a terminal step leaves the row at a terminal
\* step all along and ends with the state and the answer at a terminal step
C35_TerminalClosed ==
    run.start_step \in {"close_positive", "close_negative", "completed", "error"} =>
        /\ db.current_step \in
              {"close_positive", "close_negative", "completed", "error"}
        /\ run.finished =>
              /\ state.current_step \in
                    {"close_positive", "close_negative", "completed", "error"}
              /\ resp.step \in
                    {"close_positive", "close_negative", "completed", "error"}

\* an accepted session is answered again: the run leaves close_positive for
\* error, with the reply's save failing on the way
C35_Witness ==
    /\ run.finished
    /\ run.start_step = "close_positive"
    /\ run.intent = "positive"
    /\ "save_agent_message" \in run.faults
    /\ state.current_step = "error"
    /\ db.current_step = "error"

\* C37: a row at present_offer, awaiting_decision, handle_objection or
\* close_positive holds an income in [500, 50000], one of the six employment
\* types and a positive amount
C37_DataBehindOffer ==
    (/\ db.exists
     /\ db.current_step \in {"present_offer", "awaiting_decision",
                             "handle_objection", "close_positive"}) =>
        /\ db.collected_data.monthly_income.t = "num"
        /\ db.collected_data.monthly_income.n >= Float(500, 0)
        /\ db.collected_data.monthly_income.n <= Float(50000, 0)
        /\ db.collected_data.employment_type \in
              { Str("employee"), Str("freelancer"), Str("business_owner"),
                Str("retired"), Str("student"), Str("unemployed") }
        /\ db.collected_data.requested_amount.t = "num"
        /\ db.collected_data.requested_amount.n > 0

\* C38: whatever generate_response leaves in the state with one outcome of
\* the backend, it leaves the same step, data, intent_confirmed and lead
\* decision with every other outcome (under the same save failures)
C38_BackendIndependent ==
    [][pc = "generate" =>
         \A llm \in LLMOutcomes :
            \E fault \in {"none", "agent"} :
               LET other == GeneratedState(state, llm, fault)
               IN  /\ Len(other.messages) = Len(state'.messages)
                   /\ other.current_step = state'.current_step
                   /\ other.collected_data = state'.collected_data
                   /\ other.intent_confirmed = state'.intent_confirmed
                   /\ LeadCondition(other,
                         get_conversation_progress(other.current_step,
                                                   other.collected_data))
                      = LeadCondition(state',
                           get_conversation_progress(state'.current_step,
                                                     state'.collected_data))
    ]_vars

\* the backend failed and the session still moved on to the next step
C38_Witness ==
    /\ run.finished
    /\ run.llm = "fail"
    /\ run.faults = {}
    /\ run.start_step = "collect_income"
    /\ state.current_step = "collect_employment"
    /\ db.current_step = "collect_employment"

\* C36: the session is at close_positive, or has a lead, only if an earlier
\* run of the session ended at present_offer
C36_OfferBeforeClose ==
    (\/ db.exists /\ db.current_step = "close_positive"
     \/ state.current_step = "close_positive"
     \/ resp.step = "close_positive"
     \/ leads > 0) =>
        run.offered

\* the offer was presented by one run and accepted in the next
C36_Witness ==
    /\ run.finished
    /\ run.offered
    /\ run.start_step = "present_offer"
    /\ run.utterance = "si"
    /\ db.exists
    /\ db.current_step = "close_positive"

-----------------------------------------------------------------------------
(* ConversationAgent._clean_response on texts of every length.  A text is  *)
(* the number of whitespace characters around it (pad), the length of what *)
(* strip() leaves (len) and the last character of that (last, "a" for any  *)
(* character other than . ! ?); kind "none" is None or a value that is not *)
(* a str.                                                                  *)

CleanLengths == {0, 1, 2, 22, 497, 498, 499, 500, 501, 502, 503, 1000}

CleanPads == {0, 1, 2}

CleanLast == {".", "!", "?", "a"}

CleanInputs ==
    {[kind |-> "none", pad |-> 0, len |-> 0, last |-> ""]} \cup
    {[kind |-> "str", pad |-> p, len |-> 0, last |-> ""] : p \in CleanPads} \cup
    {[kind |-> "str", pad |-> p, len |-> n, last |-> c] :
        p \in CleanPads, n \in CleanLengths \ {0}, c \in CleanLast}

\* _clean_response; the default reply has 23 characters
_clean_response_str(response) ==
    IF response.kind # "str" \/ response.pad + response.len = 0
    THEN [len |-> 23, last |-> "?"]
    ELSE LET cleaned == [len |-> response.len, last |-> response.last]
             limited == IF cleaned.len > 500
                        THEN [len |-> 497 + 3, last |-> "."]
                        ELSE cleaned
         IN  IF limited.len > 0 /\ limited.last \notin {".", "!", "?"}
             THEN [len |-> limited.len + 1, last |-> "."]
             ELSE limited

InitClean ==
    /\ db = NoRow
    /\ leads = 0
    /\ pc = "idle"
    /\ state = NoState
    /\ resp = NoResp
    /\ run = NoRun
    /\ fnOut = NoFn
    /\ \E response \in CleanInputs :
          fnIn = [f |-> "_clean_response", response |-> response]

ApplyClean ==
    /\ fnIn.f = "_clean_response"
    /\ fnOut = NoFn
    /\ fnOut' = [ f |-> "_clean_response",
                  cleaned |-> _clean_response_str(fnIn.response) ]
    /\ UNCHANGED <<db, leads, pc, state, resp, run, fnIn>>

NextClean == ApplyClean

SpecClean == InitClean /\ [][NextClean]_vars

\* C34: every text _clean_response returns is non-empty, at most 500
\* characters long and ends with . ! or ?
C34_CleanedText ==
    fnOut.f = "_clean_response" =>
        /\ fnOut.cleaned.len > 0
        /\ fnOut.cleaned.len <= 500
        /\ fnOut.cleaned.last \in {".", "!", "?"}

\* C34 for the texts that keep a character under strip() and are not 500
\* characters of which the last is none of . ! ?
C34_CleanedTextOtherLengths ==
    (/\ fnOut.f = "_clean_response"
     /\ ~(fnIn.response.kind = "str" /\ fnIn.response.pad > 0
                                     /\ fnIn.response.len = 0)
     /\ ~(fnIn.response.len = 500 /\ fnIn.response.last = "a")) =>
        /\ fnOut.cleaned.len > 0
        /\ fnOut.cleaned.len <= 500
        /\ fnOut.cleaned.last \in {".", "!", "?"}

-----------------------------------------------------------------------------
(* RulesEngine (app/services/rules_engine.py): the batches of               *)
(* process_pending_events.  Time is counted in days.                        *)
(*   db     the rule_activations table, a set of rows                       *)
(*   fnIn   the clock (day) and the number of batches run so far            *)
(*   fnOut  the triggers builderbot.trigger_flow has sent                   *)

\* days after which the clock stops
MaxDay == 8

\* batches after which process_pending_events is not run again
MaxBatches == 2

\* the users with recent events in an active campaign
RuleUsers == {"u1", "u2"}

\* the active rules of the campaign (activation_rules), each with a cooldown
\* of one day and a min_propensity_score of at most 0.75
ActiveRules == {[id |-> 1, priority |-> 1, cooldown_days |-> 1],
                [id |-> 2, priority |-> 2, cooldown_days |-> 1]}

\* MAX(timestamp) of a non-empty set of rows
LastDay(rows) == CHOOSE d \in {a.day : a \in rows} : \A a \in rows : a.day <= d

\* _check_rule_cooldown: the last activation of the rule for the user,
\* whatever its action_taken, is at least the cooldown ago
_check_rule_cooldown(table, user_id, rule, today) ==
    LET rows == {a \in table : a.user_id = user_id /\ a.rule_id = rule.id}
    IN  rows # {} => today - LastDay(rows) >= rule.cooldown_days

\* _check_basic_guardrails: no whatsapp_sent row of the user in the last 7
\* days and none today
_check_basic_guardrails(table, user_id, today) ==
    LET sent == {a \in table : /\ a.user_id = user_id
                               /\ a.action_taken = "whatsapp_sent"}
    IN  /\ sent # {} => ~(today - LastDay(sent) < 7)
        /\ {a \in sent : a.day = today} = {}

\* _evaluate_user_rules: the rules of the user that are out of cooldown,
\* triggered by the events and let through by the guardrails, all tested
\* against the table as it is before the batch records anything
_evaluate_user_rules(table, user_id, triggered, today) ==
    { [user_id |-> user_id, rule_id |-> rule.id, priority |-> rule.priority] :
        rule \in { r \in ActiveRules :
                     /\ _check_rule_cooldown(table, user_id, r, today)
                     /\ <<user_id, r.id>> \in triggered
                     /\ _check_basic_guardrails(table, user_id, today) } }

\* _record_activation: the row written for an activation
_record_activation(activation, success, today) ==
    [ user_id |-> activation.user_id, rule_id |-> activation.rule_id,
      day |-> today,
      action_taken |-> IF success THEN "whatsapp_sent" ELSE "failed" ]

InitRules ==
    /\ db = {}
    /\ leads = 0
    /\ pc = "idle"
    /\ state = NoState
    /\ resp = NoResp
    /\ run = NoRun
    /\ fnIn = [f |-> "rules", day |-> 0, batches |-> 0]
    /\ fnOut = [f |-> "rules", sent |-> {}]

\* a day passes between two batches
NextDay ==
    /\ fnIn.f = "rules"
    /\ fnIn.day < MaxDay
    /\ fnIn' = [fnIn EXCEPT !.day = @ + 1]
    /\ UNCHANGED <<db, leads, pc, state, resp, run, fnOut>>

\* process_pending_events with _process_activations and _trigger_agent: the
\* recent events trigger some rules for some users; every activation is
\* sent, in the order of priority, and recorded.  outcome "whatsapp_sent":
\* trigger_flow succeeded; "failed": it did not, or raised, or the user has no
\* phone; "unrecorded": it succeeded and the INSERT of _record_activation
\* failed, which is only logged
process_pending_events ==
    /\ fnIn.f = "rules"
    /\ fnIn.batches < MaxBatches
    /\ \E triggered \in (SUBSET (RuleUsers \X {r.id : r \in ActiveRules})) \ {{}} :
          LET today == fnIn.day
              activations ==
                  UNION { _evaluate_user_rules(db, user_id, triggered, today) :
                             user_id \in RuleUsers }
          IN  \E outcome \in [activations ->
                                {"whatsapp_sent", "failed", "unrecorded"}] :
                 /\ db' = db \cup
                        { _record_activation(a, outcome[a] = "whatsapp_sent", today) :
                            a \in {x \in activations : outcome[x] # "unrecorded"} }
                 /\ fnOut' = [fnOut EXCEPT !.sent = @ \cup
                        { [ user_id |-> a.user_id, rule_id |-> a.rule_id,
                            day |-> today, batch |-> fnIn.batches + 1,
                            recorded |-> outcome[a] = "whatsapp_sent" ] :
                            a \in {x \in activations : outcome[x] # "failed"} }]
    /\ fnIn' = [fnIn EXCEPT !.batches = @ + 1]
    /\ UNCHANGED <<leads, pc, state, resp, run>>

NextRules ==
    \/ NextDay
    \/ process_pending_events

SpecRules == InitRules /\ [][NextRules]_vars

\* C39: two triggers sent to the same user are sent on different days, at
\* least 7 days apart
C39_OneTriggerPerWeek ==
    \A s, t \in fnOut.sent :
        (s # t /\ s.user_id = t.user_id) =>
            (s.day - t.day >= 7 \/ t.day - s.day >= 7)

\* C39 for two triggers of different batches, both recorded
C39_AcrossBatches ==
    \A s, t \in fnOut.sent :
        (/\ s.user_id = t.user_id
         /\ s.batch # t.batch
         /\ s.recorded
         /\ t.recorded) =>
            (s.day - t.day >= 7 \/ t.day - s.day >= 7)

\* C39 when every trigger is recorded
C39_AllRecorded ==
    (\A s \in fnOut.sent : s.recorded) =>
        \A s, t \in fnOut.sent :
            (s # t /\ s.user_id = t.user_id) =>
                (s.day - t.day >= 7 \/ t.day - s.day >= 7)

=============================================================================
